---- MODULE Spec2Model ----
(***************************************************************************)
(* Model of simpletasks_data: the ImportTask reconciliation engine         *)
(* (importtask.py), its ImportSource hooks (importsource.py), the Mapping  *)
(* and Column extraction layer (mapping.py) and the parsers binding        *)
(* selects (formatting.py).  The task, model and sources instantiated are  *)
(* the ones of tests/importtask_test.py, reduced to the fields id, col1    *)
(* and col2.                                                               *)
(***************************************************************************)
EXTENDS Integers, Sequences, FiniteSets, TLC

(***************************************************************************)
(* Bounds of the model.                                                    *)
(***************************************************************************)
\* Number of data rows (rows past the header lines) read in one run, over
\* all its sources.
MaxRows == 3

\* Number of data rows read in the first of two runs.
MaxRerunRows == 2

(***************************************************************************)
(* Python values.  None is the empty tuple and any other value v is the    *)
(* one-element tuple <<v>>, so that values of different types compare.     *)
(* A string is the tuple of its characters: "" is <<>> and Some(<<>>) is   *)
(* the empty string as a value, distinct from None.                        *)
(***************************************************************************)
None == <<>>

Some(v) == <<v>>

Val(o) == o[1]

Digits == {"0", "1", "2", "3", "4", "5", "6", "7", "8", "9"}

DigitVal(c) ==
    CASE c = "0" -> 0 [] c = "1" -> 1 [] c = "2" -> 2 [] c = "3" -> 3
      [] c = "4" -> 4 [] c = "5" -> 5 [] c = "6" -> 6 [] c = "7" -> 7
      [] c = "8" -> 8 [] c = "9" -> 9

\* str.strip(): leading and trailing whitespace removed.
RECURSIVE LStrip(_)
LStrip(s) == IF s # <<>> /\ Head(s) = " " THEN LStrip(Tail(s)) ELSE s

RECURSIVE RStrip(_)
RStrip(s) ==
    IF s # <<>> /\ s[Len(s)] = " " THEN RStrip(SubSeq(s, 1, Len(s) - 1)) ELSE s

Strip(s) == RStrip(LStrip(s))

\* int() of a string of decimal digits.
RECURSIVE DecValue(_)
DecValue(s) ==
    IF s = <<>> THEN 0
    ELSE 10 * DecValue(SubSeq(s, 1, Len(s) - 1)) + DigitVal(s[Len(s)])

\* formatting.str2intnullable: int(v.strip()), None when int() raises
\* ValueError.  (Signs and underscores, which int() also accepts, are not in
\* the alphabet of the model.)
str2intnullable(v) ==
    LET s == Strip(v)
    IN  IF s # <<>> /\ \A i \in 1..Len(s) : s[i] \in Digits
        THEN Some(DecValue(s))
        ELSE None

\* formatting.str2strnullable: None for an empty or blank string, else the
\* stripped string cut to maxlength characters.
str2strnullable(v, maxlength) ==
    IF v = <<>> THEN None
    ELSE LET val == Strip(v)
         IN  IF val = <<>> THEN None
             ELSE IF maxlength # None /\ Len(val) > Val(maxlength)
                  THEN Some(SubSeq(val, 1, Val(maxlength)))
                  ELSE Some(val)

(***************************************************************************)
(* The destination model MyModel of the tests, its fields id, col1, col2.  *)
(* The table has more columns, one of each type Mapping has a parser for   *)
(* and blob, of a type it has none for; no record of the model carries     *)
(* them.                                                                   *)
(***************************************************************************)
Col1Length == 1

Col2Length == 256

Fields == {"id", "col1", "col2"}

\* inspect.getmembers returns members sorted by name: Mapping.get_columns
\* lists the columns in alphabetical order of their names.
FieldOrder ==
    <<"amount", "at", "blob", "col1", "col2", "day", "flag", "hour", "id">>

Schema ==
    [id   |-> [type |-> "Integer", length |-> None, nullable |-> FALSE,
               primary_key |-> TRUE, default |-> None],
     col1 |-> [type |-> "String", length |-> Some(Col1Length), nullable |-> FALSE,
               primary_key |-> FALSE, default |-> None],
     col2 |-> [type |-> "String", length |-> Some(Col2Length), nullable |-> TRUE,
               primary_key |-> FALSE, default |-> None],
     blob |-> [type |-> "LargeBinary", length |-> None, nullable |-> TRUE,
               primary_key |-> FALSE, default |-> None],
     flag |-> [type |-> "Boolean", length |-> None, nullable |-> TRUE,
               primary_key |-> FALSE, default |-> None],
     amount |-> [type |-> "Numeric", length |-> None, nullable |-> TRUE,
                 primary_key |-> FALSE, default |-> None],
     day  |-> [type |-> "Date", length |-> None, nullable |-> TRUE,
               primary_key |-> FALSE, default |-> None],
     at   |-> [type |-> "DateTime", length |-> None, nullable |-> TRUE,
               primary_key |-> FALSE, default |-> None],
     hour |-> [type |-> "Time", length |-> None, nullable |-> TRUE,
               primary_key |-> FALSE, default |-> None]]

\* A model whose constructor fills in a field.
createModel_Filled == [id |-> None, col1 |-> Some(<<"X">>), col2 |-> None]

\* MyModel(): every field None.
createModel == [id |-> None, col1 |-> None, col2 |-> None]

\* ImportTask.do: the fields that must end up non-null.
NonNullableColumns ==
    {c \in Fields : /\ ~Schema[c].nullable
                    /\ ~Schema[c].primary_key
                    /\ Schema[c].default = None}

(***************************************************************************)
(* Columns and Mappings.                                                   *)
(***************************************************************************)
\* mapping.Column.__init__ with its defaults; parser None until binding.
Column(column_number, should_update, should_update_only_if_null, keep_history) ==
    [kind |-> "Column",
     column_number |-> column_number,
     parser |-> None,
     warn_on_error |-> TRUE,
     should_update |-> should_update,
     should_update_only_if_null |-> should_update_only_if_null,
     keep_history |-> keep_history,
     fail_on_out_of_range |-> TRUE]

\* mapping.ComputedColumn.__init__ with its defaults.
ComputedColumn(columns, computer) ==
    [kind |-> "ComputedColumn",
     columns |-> columns,
     computer |-> computer,
     warn_on_error |-> TRUE,
     should_update |-> TRUE,
     should_update_only_if_null |-> FALSE,
     keep_history |-> FALSE]

\* mapping.Field.__init__ with its defaults but for warn_on_error; parser
\* None until binding.  A field that was not given is "", which `not
\* column.field` treats as it treats None.
Field(field, warn_on_error) ==
    [kind |-> "Field",
     field |-> field,
     parser |-> None,
     warn_on_error |-> warn_on_error,
     should_update |-> TRUE,
     should_update_only_if_null |-> FALSE,
     keep_history |-> FALSE]

\* MyTask._MySource1._MyMappingA: id = auto(), col1 = auto(keep_history=True),
\* col2 = auto(should_update=False).
MyMappingA ==
    [id   |-> Column(0, TRUE, FALSE, FALSE),
     col1 |-> Column(1, TRUE, FALSE, TRUE),
     col2 |-> Column(2, FALSE, FALSE, FALSE)]

\* MyTask._MySource2._MyMappingB: id = auto(should_update=False),
\* second column = auto(should_update_only_if_null=True), here feeding col2.
MyMappingB ==
    [id   |-> Column(0, FALSE, FALSE, FALSE),
     col2 |-> Column(1, TRUE, TRUE, FALSE)]

\* Mapping.get_key_column_name
get_key_column_name == "id"

\* Mapping.get_key_column_comparator: the identity.
get_key_column_comparator(x) == x

\* Mapping.get_columns: the names of the mapping's columns, sorted.
get_columns(mapping) == SelectSeq(FieldOrder, LAMBDA n : n \in DOMAIN mapping)

\* The parser Mapping._complete_from_model selects from the field's type;
\* None when no rule matches (NotImplementedError).
InferParser_StringUncut(name) ==
    CASE Schema[name].type = "Boolean" ->
            Some([fn |-> "str2boolnullable", maxlength |-> None])
      [] Schema[name].type = "Integer" ->
            Some([fn |-> "str2intnullable", maxlength |-> None])
      [] Schema[name].type = "Numeric" ->
            Some([fn |-> "str2floatnullable", maxlength |-> None])
      [] Schema[name].type = "String" ->
            Some([fn |-> "str2strnullable", maxlength |-> None])
      [] Schema[name].type = "Date" ->
            Some([fn |-> "parseShittyDateAsDate", maxlength |-> None])
      [] Schema[name].type = "DateTime" ->
            Some([fn |-> "parseShittyDateTime", maxlength |-> None])
      [] Schema[name].type = "Time" ->
            Some([fn |-> "parseShittyTime", maxlength |-> None])
      [] OTHER -> None

InferParser(name) ==
    CASE Schema[name].type = "Boolean" ->
            Some([fn |-> "str2boolnullable", maxlength |-> None])
      [] Schema[name].type = "Integer" ->
            Some([fn |-> "str2intnullable", maxlength |-> None])
      [] Schema[name].type = "Numeric" ->
            Some([fn |-> "str2floatnullable", maxlength |-> None])
      [] Schema[name].type = "String" ->
            Some([fn |-> "str2strnullable", maxlength |-> Schema[name].length])
      [] Schema[name].type = "Date" ->
            Some([fn |-> "parseShittyDateAsDate", maxlength |-> None])
      [] Schema[name].type = "DateTime" ->
            Some([fn |-> "parseShittyDateTime", maxlength |-> None])
      [] Schema[name].type = "Time" ->
            Some([fn |-> "parseShittyTime", maxlength |-> None])
      [] OTHER -> None

\* Mapping._complete_from_model, were it to leave the field of a Field as
\* it was registered.
BoundField_Unset(name, field) == field

\* Mapping._complete_from_model: `if not column.field: column.field = name`.
BoundField(name, field) == IF field = "" THEN name ELSE field

\* Mapping._complete_from_model: every Column without a parser gets the
\* inferred one and every Field without a parser lambda x: x; an explicit
\* parser is kept.
BoundMapping(mapping) ==
    [n \in DOMAIN mapping |->
        IF mapping[n].kind = "Column" /\ mapping[n].parser = None
        THEN [mapping[n] EXCEPT !.parser = InferParser(n)]
        ELSE IF mapping[n].kind = "Field"
        THEN [mapping[n] EXCEPT
                !.parser = IF @ = None
                           THEN Some([fn |-> "identity", maxlength |-> None])
                           ELSE @,
                !.field = BoundField(n, @)]
        ELSE mapping[n]]

\* Mapping._complete_from_model, were it to return without looking for the
\* key column.
BindFails_KeyUnchecked(mapping) ==
    \/ \E n \in DOMAIN mapping :
          /\ mapping[n].kind = "Column"
          /\ BoundMapping(mapping)[n].parser = None
    \/ \E n \in DOMAIN mapping :
          /\ mapping[n].kind = "ComputedColumn"
          /\ mapping[n].computer = None

\* Mapping._complete_from_model raises: no parser could be inferred for a
\* Column (NotImplementedError), a ComputedColumn has no computer
\* (ValueError), or the key column is not in the mapping (ValueError).
BindFails(mapping) ==
    \/ \E n \in DOMAIN mapping :
          /\ mapping[n].kind = "Column"
          /\ BoundMapping(mapping)[n].parser = None
    \/ \E n \in DOMAIN mapping :
          /\ mapping[n].kind = "ComputedColumn"
          /\ mapping[n].computer = None
    \/ get_key_column_name \notin DOMAIN mapping

\* A bound parser applied to a raw string.
ApplyParser(parser, raw) ==
    IF Val(parser).fn = "identity" THEN raw
    ELSE IF Val(parser).fn = "str2intnullable"
    THEN str2intnullable(raw)
    ELSE str2strnullable(raw, Val(parser).maxlength)

\* hasattr and getattr on a row object, a sequence of <<attribute, value>>.
HasAttr(r, name) == \E i \in 1..Len(r) : r[i][1] = name

GetAttr(r, name) == r[CHOOSE i \in 1..Len(r) : r[i][1] = name][2]

\* self.field.split("."), for the field names of the columns at hand.
Split(field) ==
    CASE field = "parent.col1" -> <<"parent", "col1">>
      [] field = "parent.parent.col1" -> <<"parent", "parent", "col1">>
      [] OTHER -> <<field>>

\* Field._get, were the loop to stop after its first step.
FieldWalk_FirstStep(obj, parts) == GetAttr(obj, Head(parts))

\* Field._get, the loop over the parts: getattr for each part in turn, left
\* at the first value that is None.  The value of an attribute is None or
\* Some(v); an attribute that is traversed holds an object.
RECURSIVE FieldWalk(_, _)
FieldWalk(obj, parts) ==
    LET next == GetAttr(obj, Head(parts))
    IN  IF next = None \/ Len(parts) = 1 THEN next
        ELSE FieldWalk(Val(next), Tail(parts))

\* Field._get raises AttributeError: a getattr of the loop finds no
\* attribute of the part's name.
RECURSIVE FieldRaises(_, _)
FieldRaises(obj, parts) ==
    IF ~HasAttr(obj, Head(parts)) THEN TRUE
    ELSE IF GetAttr(obj, Head(parts)) = None \/ Len(parts) = 1 THEN FALSE
    ELSE FieldRaises(Val(GetAttr(obj, Head(parts))), Tail(parts))

\* Field._get
FieldGet(column, r) == FieldWalk(r, Split(column.field))

\* Column.get_raw_values: row[column_number]; with fail_on_out_of_range off
\* an index past the end reads "".
get_raw_values(column, r) ==
    IF column.column_number + 1 > Len(r) THEN <<>>
    ELSE r[column.column_number + 1]

\* Column.get raises IndexError: the column is not cached, its index is past
\* the end of the row and fail_on_out_of_range is on.
ColumnRaises(column, key, r, cache) ==
    /\ column.kind = "Column"
    /\ key \notin DOMAIN cache
    /\ column.fail_on_out_of_range
    /\ column.column_number + 1 > Len(r)

\* Field.get raises AttributeError: the field is not cached and the row
\* object has no attribute of its name.
ColumnErrors(column, key, r, cache) ==
    /\ column.kind = "Field"
    /\ key \notin DOMAIN cache
    /\ FieldRaises(r, Split(column.field))

\* get_raw_values raises: for a Column the IndexError of row[column_number],
\* for a Field the AttributeError of _get.
RawValuesRaise(column, r) ==
    IF column.kind = "Field" THEN FieldRaises(r, Split(column.field))
    ELSE column.fail_on_out_of_range /\ column.column_number + 1 > Len(r)

\* _parseSource, the except clause for ValueError, KeyError and
\* AttributeError: with warn_on_error it formats a warning from
\* get_raw_values(row), whose exception escapes the clause.
ErrorOutcome(column, r) ==
    IF column.warn_on_error /\ RawValuesRaise(column, r) THEN "raise" ELSE "error"

\* Column.get and Field.get past the cache: the parser applied to the raw
\* value.
GetUncached(column, r) ==
    IF column.kind = "Field" THEN ApplyParser(column.parser, FieldGet(column, r))
    ELSE ApplyParser(column.parser, get_raw_values(column, r))

\* Column.get: the cached value when the column is in _Caching.values, else
\* the parser applied to the raw value.
ColumnGet(column, key, r, cache) ==
    IF key \in DOMAIN cache THEN cache[key]
    ELSE GetUncached(column, r)

\* Column.get's effect on _Caching.values.
CacheAfterGet(column, key, r, cache) ==
    IF key \in DOMAIN cache THEN cache
    ELSE (key :> GetUncached(column, r)) @@ cache

(***************************************************************************)
(* Sources and tasks.                                                      *)
(***************************************************************************)
\* A Mapping of three auto() columns with the defaults of Column.__init__.
PlainMapping ==
    [id   |-> Column(0, TRUE, FALSE, FALSE),
     col1 |-> Column(1, TRUE, FALSE, FALSE),
     col2 |-> Column(2, TRUE, FALSE, FALSE)]

\* A Mapping with no column named as get_key_column_name().
NoKeyMapping ==
    [col1 |-> Column(0, TRUE, FALSE, FALSE),
     col2 |-> Column(1, TRUE, FALSE, FALSE)]

\* A Mapping with a column for a field of a type that has no parser.
BadTypeMapping ==
    [id   |-> Column(0, TRUE, FALSE, FALSE),
     blob |-> Column(1, TRUE, FALSE, FALSE)]

\* A Mapping whose second column was given fail_on_out_of_range=False.
LenientMapping ==
    [id   |-> Column(0, TRUE, FALSE, FALSE),
     col1 |-> [Column(1, TRUE, FALSE, FALSE) EXCEPT !.fail_on_out_of_range = FALSE]]

\* A Mapping with a ComputedColumn that was given no computer.
NoComputerMapping ==
    [id   |-> Column(0, TRUE, FALSE, FALSE),
     col1 |-> ComputedColumn(<<Column(1, TRUE, FALSE, FALSE)>>, None)]

\* A Mapping of Fields over row objects: col1, registered as Field(), warns
\* on error, col2 does not.
FieldMapping ==
    [id   |-> Field("id", TRUE),
     col1 |-> Field("", TRUE),
     col2 |-> Field("col2", FALSE)]

\* importsource.ImportMode
CREATE == {"CREATE"}

UPDATE == {"UPDATE"}

CREATE_AND_UPDATE == CREATE \cup UPDATE

\* Mapping.get_header_line_number: one header line by default.
DefaultHeaderLineNumber == 0

\* MyTask._MySource2.get_header_line_number: no header line.
NoHeaderLineNumber == -1

\* MyTask._MySource1: _MyMappingA, create and update, one header line.
MySource1 ==
    [mapping |-> MyMappingA, mode |-> CREATE_AND_UPDATE,
     header |-> DefaultHeaderLineNumber]

\* MyTask._MySource2: _MyMappingB, update only, no header line.
MySource2 ==
    [mapping |-> MyMappingB, mode |-> UPDATE, header |-> NoHeaderLineNumber]

\* A source over _MyMappingA whose mode property returns ImportMode.CREATE.
CreateSource ==
    [mapping |-> MyMappingA, mode |-> CREATE, header |-> DefaultHeaderLineNumber]

\* A source with the defaults of ImportSource over the plain mapping.
PlainSource ==
    [mapping |-> PlainMapping, mode |-> CREATE_AND_UPDATE,
     header |-> DefaultHeaderLineNumber]

\* Sources with the defaults of ImportSource over the mappings that do not
\* bind.
NoKeySource ==
    [mapping |-> NoKeyMapping, mode |-> CREATE_AND_UPDATE,
     header |-> DefaultHeaderLineNumber]

BadTypeSource ==
    [mapping |-> BadTypeMapping, mode |-> CREATE_AND_UPDATE,
     header |-> DefaultHeaderLineNumber]

NoComputerSource ==
    [mapping |-> NoComputerMapping, mode |-> CREATE_AND_UPDATE,
     header |-> DefaultHeaderLineNumber]

LenientSource ==
    [mapping |-> LenientMapping, mode |-> CREATE_AND_UPDATE,
     header |-> DefaultHeaderLineNumber]

\* A source with the defaults of ImportSource over the mapping of Fields.
FieldSource ==
    [mapping |-> FieldMapping, mode |-> CREATE_AND_UPDATE,
     header |-> NoHeaderLineNumber]

\* The tasks: get_sources() in declared order, the keep_history argument of
\* ImportTask.__init__ and the dryrun argument of the host task.
TaskNames ==
    {"MyTask", "CreateTask", "PlainTask", "NoKeyTask", "BadTypeTask",
     "NoComputerTask", "DefaultHistoryTask", "FieldTask", "NoHistoryTask",
     "LenientTask"}

Task(name) ==
    CASE name = "MyTask" ->
            [sources |-> <<MySource1, MySource2>>, keep_history |-> TRUE,
             dryrun |-> TRUE]
      [] name = "CreateTask" ->
            [sources |-> <<CreateSource, MySource2>>, keep_history |-> TRUE,
             dryrun |-> FALSE]
      [] name = "PlainTask" ->
            [sources |-> <<PlainSource, PlainSource>>, keep_history |-> FALSE,
             dryrun |-> FALSE]
      [] name = "NoKeyTask" ->
            [sources |-> <<PlainSource, NoKeySource>>, keep_history |-> FALSE,
             dryrun |-> FALSE]
      [] name = "BadTypeTask" ->
            [sources |-> <<BadTypeSource>>, keep_history |-> FALSE,
             dryrun |-> FALSE]
      [] name = "NoComputerTask" ->
            [sources |-> <<NoComputerSource>>, keep_history |-> FALSE,
             dryrun |-> FALSE]
      [] name = "DefaultHistoryTask" ->
            [sources |-> <<MySource1>>, keep_history |-> TRUE,
             dryrun |-> FALSE]
      [] name = "FieldTask" ->
            [sources |-> <<FieldSource>>, keep_history |-> FALSE,
             dryrun |-> FALSE]
      [] name = "NoHistoryTask" ->
            [sources |-> <<MySource1>>, keep_history |-> FALSE,
             dryrun |-> FALSE]
      [] name = "LenientTask" ->
            [sources |-> <<LenientSource>>, keep_history |-> FALSE,
             dryrun |-> FALSE]

\* Whether the task overrides createHistoryModel; ImportTask's own returns
\* None.
OverridesCreateHistoryModel(name) == name # "DefaultHistoryTask"

\* The records get_model_data can return.
RecordA == [id |-> Some(1), col1 |-> Some(<<"X">>), col2 |-> Some(<<"Y">>)]

RecordN == [id |-> Some(2), col1 |-> Some(<<"A">>), col2 |-> None]

InitialData == {<<RecordA>>, <<RecordA, RecordN>>}

\* The rows getGeneratorData can yield.
RowA == << <<"1">>, <<"Z">>, <<"W">> >>

RowB == << <<"2">>, <<"A">>, <<"B">> >>

RowPool ==
    {RowA,
     RowB,
     << <<"1">>, <<"X">>, <<"Y">> >>,
     << <<>>, <<"A">>, <<"B">> >>,
     << <<"2">>, <<" ">>, <<>> >>,
     << <<" ", "1">>, <<"Q", "Z">>, <<"Y">> >>,
     << <<"1">> >>,
     << >>}

\* The row objects a source of Fields can yield: with every attribute, and
\* without col1, col2 or id.
ObjectPool ==
    {<< <<"id", Some(1)>>, <<"col1", Some(<<"Z">>)>>, <<"col2", Some(<<"W">>)>> >>,
     << <<"id", Some(1)>>, <<"col2", Some(<<"W">>)>> >>,
     << <<"id", Some(1)>>, <<"col1", Some(<<"Z">>)>> >>,
     << <<"id", Some(2)>>, <<"col1", Some(<<"A">>)>> >>,
     << <<"col1", Some(<<"Z">>)>>, <<"col2", Some(<<"W">>)>> >>}

\* The rows the sources of a task can yield.
Rows(name) ==
    CASE name \in {"MyTask", "CreateTask", "PlainTask"} -> RowPool
      [] name \in {"NoKeyTask", "BadTypeTask", "NoComputerTask",
                   "DefaultHistoryTask", "NoHistoryTask"} -> {RowA, RowB}
      [] name = "LenientTask" -> {RowA, << <<"1">> >>, << >>}
      [] name = "FieldTask" -> ObjectPool

(***************************************************************************)
(* State.                                                                  *)
(***************************************************************************)
VARIABLES
    pc,               \* position in ImportTask.do / _read / _parseSource
    task,             \* the name of the task being run
    run,              \* 0: a single run; 1, 2: first and second of two runs
    first,            \* what the first of two compared runs returned and left
    log,              \* per source, the data rows the first run read
    live,             \* the field values of every model object, by identity
    initial,          \* the field values the database held before the run
    rawData,          \* self.rawData: the working set, a list of identities
    updates,          \* self.updates, in insertion order
    si,               \* index of the current source in get_sources()
    importer_mapping, \* source.importer_mapping: the bound mapping
    data,             \* _parseSource: key -> item lookup
    dataNotRead,      \* _parseSource: items no row of the source matched
    cnt,              \* _parseSource: the counters of the current source
    line_idx,         \* _parseSource: enumerate index of the next row
    row,              \* _parseSource: the row last read
    id,               \* _parseSource: its key
    item,             \* _parseSource: the item it creates or updates
    creating,         \* _parseSource: whether the row creates the item
    ci,               \* _parseSource: index of the next column of the row
    hooks,            \* what should_import and validate_updates last answered
    last_outcome,     \* what the column loop did with the last column
    values,           \* _Caching.values
    results,          \* results["sources"]
    queue,            \* _read: list(self.updates.keys()) still to apply
    totals,           \* _read: rejected, created, updated, history_created
    session,          \* db.session.add calls, in order
    history_models,   \* items createHistoryModel was called for
    applied,          \* what _apply_updates_for returned, item by item
    commits,          \* db.session.commit calls
    created_for,      \* key -> item, for the created items the source accepted
    nrows,            \* data rows read so far in the run
    started,          \* the working set when the current source started
    matched,          \* the items the rows of the current source matched
    on_data_not_found, \* per source, the calls of on_data_not_found by item
    phases,           \* the steps of do and _read taken so far, in order
    mapping_obj,      \* a Mapping object outside a run: its counter and columns
    ret,              \* what the last call on a column or a Mapping returned
    invocations       \* row-processing steps that run at the same time

runVars == <<task, run, first, log, initial>>

sourceVars == <<si, importer_mapping, data, dataNotRead, cnt, line_idx>>

rowVars == <<row, id, item, creating, ci, hooks, last_outcome>>

applyVars == <<queue, totals, session, history_models, applied, commits>>

notFoundVars == <<started, matched, on_data_not_found>>

unitVars == <<mapping_obj, ret, invocations>>

vars ==
    <<pc, runVars, live, rawData, updates, sourceVars, rowVars, values, results,
      applyVars, created_for, nrows, notFoundVars, phases, unitVars>>

NoItem == 0

EmptyMap == [x \in {} |-> None]

ZeroCounters ==
    [read |-> 0, ignored |-> 0, ignored_missing_id |-> 0,
     ignored_not_created |-> 0, ignored_not_updated |-> 0,
     rejected |-> 0, not_found |-> 0]

\* ImportSource.should_import and ImportSource.validate_updates by default.
NoHooks == [should_import |-> TRUE, validate_updates |-> TRUE]

ZeroTotals == [rejected |-> 0, created |-> 0, updated |-> 0, history_created |-> 0]

\* The sources of the task being run.
Sources == Task(task).sources

\* Field values before the run: what the database held, None for an item
\* createModel made during the run.
PreRun(x) == IF x <= Len(initial) THEN initial[x] ELSE createModel

(***************************************************************************)
(* self.updates: item -> (staged values, history-flagged names, creating). *)
(***************************************************************************)
InUpdates(u, x) == \E i \in 1..Len(u) : u[i].item = x

Entry(u, x) == u[CHOOSE i \in 1..Len(u) : u[i].item = x]

\* ImportTask.is_updated
is_updated(u, x, column) == InUpdates(u, x) /\ column \in DOMAIN Entry(u, x).vals

\* ImportTask.get_updated_value_for
get_updated_value_for(u, lv, x, column) ==
    IF is_updated(u, x, column) THEN Entry(u, x).vals[column] ELSE lv[x][column]

\* set_updated_value_for that never records the history flag.
set_updated_value_for_NoFlag(u, x, column, value, keep_history) ==
    LET u1 == IF InUpdates(u, x) THEN u
              ELSE Append(u, [item |-> x, vals |-> EmptyMap, hist |-> {},
                              creating |-> FALSE])
    IN  [i \in 1..Len(u1) |->
            IF u1[i].item = x
            THEN [u1[i] EXCEPT !.vals = (column :> value) @@ @]
            ELSE u1[i]]

\* set_updated_value_for, were a value already staged for the column kept.
set_updated_value_for_KeepFirst(u, x, column, value, keep_history) ==
    LET u1 == IF InUpdates(u, x) THEN u
              ELSE Append(u, [item |-> x, vals |-> EmptyMap, hist |-> {},
                              creating |-> FALSE])
    IN  [i \in 1..Len(u1) |->
            IF u1[i].item = x
            THEN [u1[i] EXCEPT
                    !.vals = @ @@ (column :> value),
                    !.hist = IF keep_history THEN @ \cup {column} ELSE @]
            ELSE u1[i]]

\* ImportTask.set_updated_value_for
set_updated_value_for(u, x, column, value, keep_history) ==
    LET u1 == IF InUpdates(u, x) THEN u
              ELSE Append(u, [item |-> x, vals |-> EmptyMap, hist |-> {},
                              creating |-> FALSE])
    IN  [i \in 1..Len(u1) |->
            IF u1[i].item = x
            THEN [u1[i] EXCEPT
                    !.vals = (column :> value) @@ @,
                    !.hist = IF keep_history THEN @ \cup {column} ELSE @]
            ELSE u1[i]]

\* self.updates.clear() in the place of del self.updates[item].
DelUpdates_All(u, x) == <<>>

\* del self.updates[item]
DelUpdates(u, x) == SelectSeq(u, LAMBDA e : e.item # x)

\* cancel_updated_value_for that leaves the staged value in place.
cancel_updated_value_for_Ignore(u, x, column) == u

\* cancel_updated_value_for without the discard of the history flag.
cancel_updated_value_for_KeepFlag(u, x, column) ==
    LET e  == Entry(u, x)
        e1 == [e EXCEPT !.vals = [c \in DOMAIN e.vals \ {column} |-> e.vals[c]]]
    IN  IF DOMAIN e1.vals = {}
        THEN DelUpdates(u, x)
        ELSE [i \in 1..Len(u) |-> IF u[i].item = x THEN e1 ELSE u[i]]

\* cancel_updated_value_for without the removal of an entry left empty.
cancel_updated_value_for_KeepEmpty(u, x, column) ==
    LET e  == Entry(u, x)
        e1 == [e EXCEPT !.vals = [c \in DOMAIN e.vals \ {column} |-> e.vals[c]],
                        !.hist = @ \ {column}]
    IN  [i \in 1..Len(u) |-> IF u[i].item = x THEN e1 ELSE u[i]]

\* ImportTask.cancel_updated_value_for, for a staged column
cancel_updated_value_for(u, x, column) ==
    LET e  == Entry(u, x)
        e1 == [e EXCEPT !.vals = [c \in DOMAIN e.vals \ {column} |-> e.vals[c]],
                        !.hist = @ \ {column}]
    IN  IF DOMAIN e1.vals = {}
        THEN DelUpdates(u, x)
        ELSE [i \in 1..Len(u) |-> IF u[i].item = x THEN e1 ELSE u[i]]

(***************************************************************************)
(* ImportTask.do and ImportTask._read up to the first source.              *)
(***************************************************************************)
\* Mapping.__init__: no column registered, the auto counter at 0.
\* No row-processing step runs beside the run.
NoInvocations == <<>>

NewMapping == [auto_counter |-> 0, names |-> <<>>, columns |-> EmptyMap]

\* The state before do(), but for the task, the database and the run mode.
InitRun ==
    /\ pc = "pre_process"
    /\ log = <<>>
    /\ rawData = <<>>
    /\ updates = <<>>
    /\ si = 1
    /\ importer_mapping = EmptyMap
    /\ data = EmptyMap
    /\ dataNotRead = {}
    /\ cnt = ZeroCounters
    /\ line_idx = 0
    /\ row = <<>>
    /\ id = None
    /\ item = NoItem
    /\ creating = FALSE
    /\ ci = 1
    /\ hooks = NoHooks
    /\ last_outcome = ""
    /\ values = EmptyMap
    /\ results = <<>>
    /\ queue = <<>>
    /\ totals = ZeroTotals
    /\ session = <<>>
    /\ history_models = {}
    /\ applied = <<>>
    /\ commits = 0
    /\ created_for = EmptyMap
    /\ nrows = 0
    /\ started = {}
    /\ matched = {}
    /\ on_data_not_found = <<>>
    /\ phases = <<>>
    /\ mapping_obj = NewMapping
    /\ ret = None

Init ==
    /\ task \in TaskNames
    /\ live \in InitialData
    /\ initial = live
    /\ run = 0
    /\ first = None
    /\ InitRun
    /\ invocations = NoInvocations

\* do: results["preprocess"] = self.pre_process()
PreProcess ==
    /\ pc = "pre_process"
    /\ pc' = "get_model_data"
    /\ phases' = Append(phases, <<"pre_process">>)
    /\ UNCHANGED <<unitVars, notFoundVars, runVars, live, rawData, updates, sourceVars, rowVars, values,
                   results, applyVars, created_for, nrows>>

\* do: self.rawData = self.get_model_data(); _read: self.updates = {}
GetModelData ==
    /\ pc = "get_model_data"
    /\ rawData' = [i \in 1..Len(live) |-> i]
    /\ updates' = <<>>
    /\ results' = <<>>
    /\ pc' = "sources"
    /\ phases' = Append(phases, <<"get_model_data">>)
    /\ UNCHANGED <<unitVars, notFoundVars, runVars, live, sourceVars, rowVars, values, applyVars,
                   created_for, nrows>>

\* The lookup, were it built from the fields of the records alone.
RECURSIVE BuildData_LiveKeys(_, _, _)
BuildData_LiveKeys(rd, u, lv) ==
    IF rd = <<>> THEN EmptyMap
    ELSE LET x == rd[Len(rd)]
             key == get_key_column_comparator(lv[x][get_key_column_name])
         IN  (key :> x) @@ BuildData_LiveKeys(SubSeq(rd, 1, Len(rd) - 1), u, lv)

\* _parseSource: the key -> item lookup over the working set, a later item
\* replacing an earlier one with the same key.
RECURSIVE BuildData(_, _, _)
BuildData(rd, u, lv) ==
    IF rd = <<>> THEN EmptyMap
    ELSE LET x == rd[Len(rd)]
             key == get_key_column_comparator(
                        get_updated_value_for(u, lv, x, get_key_column_name))
         IN  (key :> x) @@ BuildData(SubSeq(rd, 1, Len(rd) - 1), u, lv)

\* _parseSource up to the row loop: bind the mapping, build the lookup.
StartSource ==
    /\ pc = "sources"
    /\ si <= Len(Sources)
    /\ LET source == Sources[si]
       IN  IF BindFails(source.mapping)
           THEN /\ pc' = "failed"
                /\ UNCHANGED <<importer_mapping, data, dataNotRead>>
           ELSE /\ pc' = "rows"
                /\ importer_mapping' = BoundMapping(source.mapping)
                /\ data' = BuildData(rawData, updates, live)
                /\ dataNotRead' = {rawData[i] : i \in 1..Len(rawData)}
    /\ cnt' = ZeroCounters
    /\ line_idx' = 0
    /\ log' = IF run = 1 THEN Append(log, <<>>) ELSE log
    /\ started' = {rawData[i] : i \in 1..Len(rawData)}
    /\ matched' = {}
    /\ phases' = Append(phases, <<"source", si>>)
    /\ UNCHANGED <<unitVars, on_data_not_found, task, run, first, initial, live, rawData, updates, si, rowVars,
                   values, results, applyVars, created_for, nrows>>

(***************************************************************************)
(* ImportTask._parseSource: the row loop.                                  *)
(***************************************************************************)
\* A counter incremented, were read never counted.
Bump_NotRead(c, f) == IF f = "read" THEN c ELSE [c EXCEPT ![f] = @ + 1]

Bump(c, f) == [c EXCEPT ![f] = @ + 1]

\* Mapping._complete_from_model, were it to return the first column of the
\* mapping as the key column.
complete_from_model_FirstColumn(mapping) ==
    <<get_columns(mapping)[1], BoundMapping(mapping)[get_columns(mapping)[1]]>>

\* Mapping._complete_from_model: the (keycolumn_name, keycolumn) it returns,
\* the column whose name is get_key_column_name().
complete_from_model(mapping) ==
    <<get_key_column_name, BoundMapping(mapping)[get_key_column_name]>>

\* ImportSource._fill_mapping: self.keycolumn of the current source.
keycolumn == complete_from_model(Sources[si].mapping)[2]

\* The identity of a column of the current source in _Caching.values.
ColumnKey(name) == <<si, name>>

\* ImportSource.get_key raises what keycolumn.get(row) raises: the IndexError
\* of a Column past the end of the row, the AttributeError of a Field the
\* row object has no attribute for.
KeyRaises(r) ==
    \/ ColumnRaises(keycolumn, ColumnKey(get_key_column_name), r, EmptyMap)
    \/ ColumnErrors(keycolumn, ColumnKey(get_key_column_name), r, EmptyMap)

\* ImportSource.get_key on a cleared cache.
get_key(r) ==
    LET key == ColumnGet(keycolumn,
                         ColumnKey(get_key_column_name), r, EmptyMap)
    IN  IF key = None THEN None ELSE get_key_column_comparator(key)

\* _parseSource skipping one row less than the header line number says.
RowOutcome_HeaderOffByOne(r, imp) ==
    LET source == Sources[si]
    IN  IF line_idx < source.header THEN "header"
        ELSE IF ~imp THEN "ignored"
        ELSE IF KeyRaises(r)
             THEN "raise"
        ELSE IF get_key(r) = None THEN "missing_id"
        ELSE IF get_key(r) \notin DOMAIN data
             THEN IF source.mode \cap CREATE # {} THEN "create" ELSE "not_created"
        ELSE IF source.mode \cap UPDATE # {} THEN "update" ELSE "not_updated"

\* _parseSource without the tests of the source's mode.
RowOutcome_IgnoreMode(r, imp) ==
    LET source == Sources[si]
    IN  IF line_idx <= source.header THEN "header"
        ELSE IF ~imp THEN "ignored"
        ELSE IF KeyRaises(r)
             THEN "raise"
        ELSE IF get_key(r) = None THEN "missing_id"
        ELSE IF get_key(r) \notin DOMAIN data THEN "create"
        ELSE "update"

\* _parseSource without the test of the key against None.
RowOutcome_KeepNullKey(r, imp) ==
    LET source == Sources[si]
    IN  IF line_idx <= source.header THEN "header"
        ELSE IF ~imp THEN "ignored"
        ELSE IF KeyRaises(r)
             THEN "raise"
        ELSE IF get_key(r) \notin DOMAIN data
             THEN IF source.mode \cap CREATE # {} THEN "create" ELSE "not_created"
        ELSE IF source.mode \cap UPDATE # {} THEN "update" ELSE "not_updated"

\* _parseSource: the path row r takes through the loop body, imp being what
\* should_import answers for it.
RowOutcome(r, imp) ==
    LET source == Sources[si]
    IN  IF line_idx <= source.header THEN "header"
        ELSE IF ~imp THEN "ignored"
        ELSE IF KeyRaises(r)
             THEN "raise"
        ELSE IF get_key(r) = None THEN "missing_id"
        ELSE IF get_key(r) \notin DOMAIN data
             THEN IF source.mode \cap CREATE # {} THEN "create" ELSE "not_created"
        ELSE IF source.mode \cap UPDATE # {} THEN "update" ELSE "not_updated"

\* The counter of _parseSource an outcome increments.
RowCounter(outcome) ==
    CASE outcome = "ignored" -> "ignored"
      [] outcome = "missing_id" -> "ignored_missing_id"
      [] outcome = "not_created" -> "ignored_not_created"
      [] outcome = "not_updated" -> "ignored_not_updated"

\* dataNotRead.discard(item), and the variant that leaves the set as it was.
discard_Nothing(notRead, x) == notRead

discard(notRead, x) == notRead \ {x}

\* The data rows a run may read.
RowBudget == IF run = 0 THEN MaxRows ELSE MaxRerunRows

\* What the hooks should_import and validate_updates of a source may answer:
\* anything in a single run, the default of ImportSource in two runs in a row.
HookAnswers == IF run = 0 THEN BOOLEAN ELSE {TRUE}

\* Whether post_process or pre_commit, as a task overrides them, raises:
\* either in a single run, never in compared runs.
HookRaises == IF run = 0 THEN BOOLEAN ELSE {FALSE}

\* The data rows of the current source read so far.
DataRowsRead ==
    IF line_idx > Sources[si].header + 1
    THEN line_idx - Sources[si].header - 1
    ELSE 0

\* The second of two runs reads the data rows the first run read, and
\* should_import answers for them as it did.
SameRow(r, imp) ==
    /\ DataRowsRead < Len(log[si])
    /\ r = log[si][DataRowsRead + 1].row
    /\ imp = log[si][DataRowsRead + 1].imp

\* The log with entry e added for the current source.
Logged(e) == [log EXCEPT ![si] = Append(@, e)]

\* The log with <<name, value>> added to what the current row staged.
LoggedSet(name, value) ==
    [log EXCEPT ![si][Len(log[si])].sets = @ \cup {<<name, value>>}]

\* _parseSource: one iteration of the row loop, up to the column loop.
ReadRow ==
    /\ pc = "rows"
    /\ \E r \in Rows(task), imp \in HookAnswers :
         LET outcome == RowOutcome(r, imp)
             keycol == keycolumn
             keyed == outcome \notin {"header", "ignored", "raise"}
             found == outcome \in {"update", "not_updated"}
             x == IF outcome = "create" THEN Len(live) + 1
                  ELSE IF found THEN data[get_key(r)]
                  ELSE item
         IN  /\ outcome = "header" \/ nrows < RowBudget
             /\ run = 2 => outcome = "header" \/ SameRow(r, imp)
             /\ outcome = "header" => imp
             /\ row' = r
             /\ hooks' = IF outcome = "header" THEN hooks
                         ELSE [should_import |-> imp, validate_updates |-> TRUE]
             /\ last_outcome' = ""
             /\ line_idx' = line_idx + 1
             /\ nrows' = IF outcome = "header" THEN nrows ELSE nrows + 1
             /\ cnt' = IF outcome \in {"ignored", "missing_id", "not_created",
                                       "not_updated"}
                       THEN Bump(cnt, RowCounter(outcome))
                       ELSE cnt
             /\ values' = IF outcome \in {"header", "ignored"} THEN values
                          ELSE IF outcome = "raise" THEN EmptyMap
                          ELSE CacheAfterGet(keycol, ColumnKey(get_key_column_name),
                                             r, EmptyMap)
             /\ id' = IF keyed THEN get_key(r) ELSE id
             /\ live' = IF outcome = "create" THEN Append(live, createModel)
                        ELSE live
             /\ item' = x
             /\ creating' = CASE outcome = "create" -> TRUE
                              [] outcome = "update" -> FALSE
                              [] OTHER -> creating
             /\ updates' = IF outcome = "create"
                           THEN Append(updates,
                                       [item |-> x, vals |-> EmptyMap,
                                        hist |-> {}, creating |-> TRUE])
                           ELSE updates
             /\ dataNotRead' = IF found THEN discard(dataNotRead, x) ELSE dataNotRead
             /\ matched' = IF found THEN matched \cup {x} ELSE matched
             /\ ci' = 1
             /\ pc' = CASE outcome \in {"create", "update"} -> "columns"
                        [] outcome = "raise" -> "failed"
                        [] OTHER -> "rows"
             /\ log' = IF run = 1 /\ outcome # "header"
                       THEN Logged([row |-> r, imp |-> imp, sets |-> {},
                                    item |-> IF outcome \in {"create", "update"}
                                             THEN x ELSE NoItem])
                       ELSE log
    /\ UNCHANGED <<unitVars, phases, task, run, first, initial, rawData, si, importer_mapping, data,
                   results, applyVars, created_for, started, on_data_not_found>>

\* _Column.comparator by default
Comparator(x, y) == x = y

\* The column loop skipping should_update = False columns on creation too.
ColumnOutcome_SkipOnCreate(name) ==
    LET column == importer_mapping[name]
        old_value == get_updated_value_for(updates, live, item, name)
        new_value == ColumnGet(column, ColumnKey(name), row, values)
    IN  IF ~column.should_update THEN "skip_should_update"
        ELSE IF ~creating /\ column.should_update_only_if_null /\ old_value # None
             THEN "skip_not_null"
        ELSE IF ColumnRaises(column, ColumnKey(name), row, values) THEN "raise"
        ELSE IF ColumnErrors(column, ColumnKey(name), row, values)
             THEN ErrorOutcome(column, row)
        ELSE IF Comparator(new_value, old_value) THEN "equal"
        ELSE IF Comparator(new_value, live[item][name])
             THEN IF is_updated(updates, item, name) THEN "cancel" ELSE "cancel_error"
        ELSE "set"

\* The column loop without the test of should_update.
ColumnOutcome_IgnoreShouldUpdate(name) ==
    LET column == importer_mapping[name]
        old_value == get_updated_value_for(updates, live, item, name)
        new_value == ColumnGet(column, ColumnKey(name), row, values)
    IN  IF ~creating /\ column.should_update_only_if_null /\ old_value # None
        THEN "skip_not_null"
        ELSE IF ColumnRaises(column, ColumnKey(name), row, values) THEN "raise"
        ELSE IF ColumnErrors(column, ColumnKey(name), row, values)
             THEN ErrorOutcome(column, row)
        ELSE IF Comparator(new_value, old_value) THEN "equal"
        ELSE IF Comparator(new_value, live[item][name])
             THEN IF is_updated(updates, item, name) THEN "cancel" ELSE "cancel_error"
        ELSE "set"

\* The column loop without the test of should_update_only_if_null.
ColumnOutcome_IgnoreOnlyIfNull(name) ==
    LET column == importer_mapping[name]
        old_value == get_updated_value_for(updates, live, item, name)
        new_value == ColumnGet(column, ColumnKey(name), row, values)
    IN  IF ~creating /\ ~column.should_update THEN "skip_should_update"
        ELSE IF ColumnRaises(column, ColumnKey(name), row, values) THEN "raise"
        ELSE IF ColumnErrors(column, ColumnKey(name), row, values)
             THEN ErrorOutcome(column, row)
        ELSE IF Comparator(new_value, old_value) THEN "equal"
        ELSE IF Comparator(new_value, live[item][name])
             THEN IF is_updated(updates, item, name) THEN "cancel" ELSE "cancel_error"
        ELSE "set"

\* The column loop without the comparison of the new value with the value
\* the item holds.
ColumnOutcome_NoLiveCompare(name) ==
    LET column == importer_mapping[name]
        old_value == get_updated_value_for(updates, live, item, name)
        new_value == ColumnGet(column, ColumnKey(name), row, values)
    IN  IF ~creating /\ ~column.should_update THEN "skip_should_update"
        ELSE IF ~creating /\ column.should_update_only_if_null /\ old_value # None
             THEN "skip_not_null"
        ELSE IF ColumnRaises(column, ColumnKey(name), row, values) THEN "raise"
        ELSE IF ColumnErrors(column, ColumnKey(name), row, values)
             THEN ErrorOutcome(column, row)
        ELSE IF Comparator(new_value, old_value) THEN "equal"
        ELSE "set"

\* _parseSource: what the column loop does with column name of the row.
ColumnOutcome(name) ==
    LET column == importer_mapping[name]
        old_value == get_updated_value_for(updates, live, item, name)
        new_value == ColumnGet(column, ColumnKey(name), row, values)
    IN  IF ~creating /\ ~column.should_update THEN "skip_should_update"
        ELSE IF ~creating /\ column.should_update_only_if_null /\ old_value # None
             THEN "skip_not_null"
        ELSE IF ColumnRaises(column, ColumnKey(name), row, values) THEN "raise"
        ELSE IF ColumnErrors(column, ColumnKey(name), row, values)
             THEN ErrorOutcome(column, row)
        ELSE IF Comparator(new_value, old_value) THEN "equal"
        ELSE IF Comparator(new_value, live[item][name])
             THEN IF is_updated(updates, item, name) THEN "cancel" ELSE "cancel_error"
        ELSE "set"

\* The column the column loop is at.
ColumnName == get_columns(importer_mapping)[ci]

\* _parseSource: one iteration of the column loop.
ColumnStep ==
    /\ pc = "columns"
    /\ LET name == ColumnName
           column == importer_mapping[name]
           outcome == ColumnOutcome(name)
           new_value == ColumnGet(column, ColumnKey(name), row, values)
       IN  /\ updates' =
                CASE outcome = "set" ->
                        set_updated_value_for(updates, item, name, new_value,
                                              ~creating /\ column.keep_history)
                  [] outcome = "cancel" ->
                        cancel_updated_value_for(updates, item, name)
                  [] OTHER -> updates
           /\ values' = IF outcome \in {"equal", "cancel", "cancel_error", "set"}
                        THEN CacheAfterGet(column, ColumnKey(name), row, values)
                        ELSE values
           /\ pc' = IF outcome = "raise" THEN "failed"
                    ELSE IF ci = Len(get_columns(importer_mapping)) THEN "validate"
                    ELSE "columns"
           /\ last_outcome' = outcome
           /\ log' = IF run = 1 /\ outcome = "set" THEN LoggedSet(name, new_value)
                     ELSE log
    /\ ci' = ci + 1
    /\ UNCHANGED <<unitVars, phases, notFoundVars, task, run, first, initial, live, rawData, sourceVars, row, id, item,
                   creating, hooks, results, applyVars, created_for, nrows>>

\* _parseSource: the end of a row: read is counted, the source's
\* validate_updates answers ok, a created item joins the working set.
ValidateRow ==
    /\ pc = "validate"
    /\ \E ok \in HookAnswers :
         /\ InUpdates(updates, item) \/ ok
         /\ hooks' = [hooks EXCEPT !.validate_updates = ok]
         /\ IF InUpdates(updates, item) /\ ~ok
            THEN /\ cnt' = Bump(Bump(cnt, "read"), "rejected")
                 /\ updates' = DelUpdates(updates, item)
                 /\ UNCHANGED <<rawData, data, created_for>>
            ELSE /\ cnt' = Bump(cnt, "read")
                 /\ UNCHANGED updates
                 /\ IF creating
                    THEN /\ rawData' = Append(rawData, item)
                         /\ data' = IF id # None THEN (id :> item) @@ data ELSE data
                         /\ created_for' = (id :> item) @@ created_for
                    ELSE UNCHANGED <<rawData, data, created_for>>
    /\ pc' = "rows"
    /\ UNCHANGED <<unitVars, phases, notFoundVars, runVars, live, si, importer_mapping, dataNotRead, line_idx,
                   row, id, item, creating, ci, last_outcome, values, results,
                   applyVars, nrows>>

\* _parseSource after the last row: on_data_not_found for every item no row
\* matched, and the counters returned to _read.
EndSource ==
    /\ pc = "rows"
    /\ run = 2 => DataRowsRead = Len(log[si])
    /\ results' = Append(results, [cnt EXCEPT !.not_found = Cardinality(dataNotRead)])
    /\ si' = si + 1
    /\ pc' = "sources"
    /\ row' = <<>>
    /\ id' = None
    /\ item' = NoItem
    /\ creating' = FALSE
    /\ ci' = 1
    /\ hooks' = NoHooks
    /\ last_outcome' = ""
    /\ on_data_not_found' = Append(on_data_not_found, [x \in dataNotRead |-> 1])
    /\ UNCHANGED <<unitVars, phases, started, matched, runVars, live, rawData, updates, importer_mapping, data,
                   dataNotRead, cnt, line_idx, values, applyVars, created_for,
                   nrows>>

(***************************************************************************)
(* ImportTask._read after the sources: apply and commit.                   *)
(***************************************************************************)
\* _read: results["postprocess"] = self.post_process(), then
\* list(self.updates.keys()).
PostProcess ==
    /\ pc = "sources"
    /\ si > Len(Sources)
    /\ \E raised \in HookRaises :
         IF raised
         THEN pc' = "failed" /\ UNCHANGED queue
         ELSE /\ pc' = "apply"
              /\ queue' = [i \in 1..Len(updates) |-> updates[i].item]
    /\ phases' = Append(phases, <<"post_process">>)
    /\ UNCHANGED <<unitVars, notFoundVars, runVars, live, rawData, updates, sourceVars, rowVars, values,
                   results, totals, session, history_models, applied, commits,
                   created_for, nrows>>

\* The dryrun argument of the task: the compared run takes the other value.
dryrun == IF first = None THEN Task(task).dryrun ELSE ~Task(task).dryrun

\* Task.execute: the callback runs unless the task is a dry run.
execute(dry, n) == IF dry THEN n ELSE n + 1

\* A validate_updates overridden to accept every record.
validate_updates_Always(u, lv, x) == TRUE

\* ImportTask.validate_updates by default
validate_updates(u, lv, x) ==
    \A column \in NonNullableColumns : get_updated_value_for(u, lv, x, column) # None

\* _apply_updates_for: the staged names that go to the History Companion.
HistoryNames(e) ==
    {name \in DOMAIN e.vals : Task(task).keep_history /\ name \in e.hist}

\* A History Companion whose old_ fields are read after the record was
\* written.
createHistoryModel_NewAsOld(x, e, lv) ==
    [kind |-> "history", item |-> x,
     old |-> [name \in HistoryNames(e) |-> e.vals[name]],
     new |-> [name \in HistoryNames(e) |-> e.vals[name]]]

\* MyTask.createHistoryModel, with the old_ and new_ fields
\* _apply_updates_for sets on it.
createHistoryModel(x, e, lv) ==
    [kind |-> "history", item |-> x,
     old |-> [name \in HistoryNames(e) |-> lv[x][name]],
     new |-> [name \in HistoryNames(e) |-> e.vals[name]]]

\* _apply_updates_for, were it to leave the records alone in a dry run.
ApplyResult_SkipsDryRun(u, lv, x) ==
    IF dryrun \/ ~InUpdates(u, x) THEN "none"
    ELSE IF ~validate_updates(u, lv, x) THEN "rejected"
    ELSE IF Entry(u, x).creating THEN "created"
    ELSE IF DOMAIN Entry(u, x).vals # {} THEN "updated"
    ELSE "none"

\* _apply_updates_for, were a record that fails validate_updates returned
\* without being counted.
ApplyResult_UncountedRejection(u, lv, x) ==
    IF ~InUpdates(u, x) THEN "none"
    ELSE IF ~validate_updates(u, lv, x) THEN "none"
    ELSE IF Entry(u, x).creating THEN "created"
    ELSE IF DOMAIN Entry(u, x).vals # {} THEN "updated"
    ELSE "none"

\* _apply_updates_for: which counter it returns 1 for.
ApplyResult(u, lv, x) ==
    IF ~InUpdates(u, x) THEN "none"
    ELSE IF ~validate_updates(u, lv, x) THEN "rejected"
    ELSE IF Entry(u, x).creating THEN "created"
    ELSE IF DOMAIN Entry(u, x).vals # {} THEN "updated"
    ELSE "none"

\* _read: _apply_updates_for the next item of the list.  When the task has
\* no createHistoryModel of its own, the first history-flagged name makes
\* setattr(None, ...) raise AttributeError after the names staged before it
\* were written to the item.
ApplyUpdates ==
    /\ pc = "apply"
    /\ queue # <<>>
    /\ LET x == Head(queue)
           res == ApplyResult(updates, live, x)
           e == Entry(updates, x)
           written == res \in {"created", "updated"}
           history == written /\ HistoryNames(e) # {}
           registered == res = "updated" /\ history
       IN  IF history /\ ~OverridesCreateHistoryModel(task)
           THEN /\ pc' = "failed"
                /\ \E before \in SUBSET (DOMAIN e.vals \ HistoryNames(e)) :
                      live' = [live EXCEPT ![x] =
                                  [f \in Fields |->
                                      IF f \in before THEN e.vals[f] ELSE @[f]]]
                /\ UNCHANGED <<queue, totals, session, history_models, applied>>
           ELSE /\ pc' = pc
                /\ live' = IF written
                           THEN [live EXCEPT ![x] =
                                    [f \in Fields |->
                                        IF f \in DOMAIN e.vals THEN e.vals[f]
                                        ELSE @[f]]]
                           ELSE live
                /\ history_models' = IF history THEN history_models \cup {x}
                                     ELSE history_models
                /\ session' = CASE res = "created" ->
                                      Append(session, [kind |-> "model", item |-> x])
                                [] registered ->
                                      Append(session, createHistoryModel(x, e, live))
                                [] OTHER -> session
                /\ totals' = [rejected |-> totals.rejected
                                             + (IF res = "rejected" THEN 1 ELSE 0),
                              created |-> totals.created
                                             + (IF res = "created" THEN 1 ELSE 0),
                              updated |-> totals.updated
                                             + (IF res = "updated" THEN 1 ELSE 0),
                              history_created |-> totals.history_created
                                             + (IF registered THEN 1 ELSE 0)]
                /\ applied' = Append(applied, [item |-> x, res |-> res,
                                               history |-> registered])
                /\ queue' = Tail(queue)
    /\ phases' = Append(phases, <<"apply", Head(queue)>>)
    /\ UNCHANGED <<unitVars, notFoundVars, runVars, rawData, updates, sourceVars,
                   rowVars, values, results, commits, created_for, nrows>>

\* _read without the self.execute line: pre_commit goes on to post_commit.
PreCommit_SkipsCommit ==
    /\ pc = "apply"
    /\ queue = <<>>
    /\ pc' = "post_commit"
    /\ phases' = Append(phases, <<"pre_commit">>)
    /\ UNCHANGED <<unitVars, notFoundVars, runVars, live, rawData, updates, sourceVars,
                   rowVars, values, results, applyVars, created_for, nrows>>

\* _read with the self.execute line moved above the pre_commit call.
PreCommit_AfterCommit ==
    /\ pc = "apply"
    /\ queue = <<>>
    /\ commits' = execute(dryrun, commits)
    /\ \E raised \in HookRaises : pc' = IF raised THEN "failed" ELSE "post_commit"
    /\ phases' = phases \o <<<<"commit">>, <<"pre_commit">>>>
    /\ UNCHANGED <<unitVars, notFoundVars, runVars, live, rawData, updates, sourceVars,
                   rowVars, values, results, queue, totals, session,
                   history_models, applied, created_for, nrows>>

\* _read: results["precommit"] = self.pre_commit()
PreCommit ==
    /\ pc = "apply"
    /\ queue = <<>>
    /\ \E raised \in HookRaises : pc' = IF raised THEN "failed" ELSE "commit"
    /\ phases' = Append(phases, <<"pre_commit">>)
    /\ UNCHANGED <<unitVars, notFoundVars, runVars, live, rawData, updates, sourceVars, rowVars, values,
                   results, applyVars, created_for, nrows>>

\* _read: self.execute(session.commit), which a dry run skips.
Commit ==
    /\ pc = "commit"
    /\ commits' = execute(dryrun, commits)
    /\ pc' = "post_commit"
    /\ phases' = Append(phases, <<"commit">>)
    /\ UNCHANGED <<unitVars, notFoundVars, runVars, live, rawData, updates, sourceVars, rowVars, values,
                   results, queue, totals, session, history_models, applied,
                   created_for, nrows>>

\* _read: results["postcommit"] = self.post_commit(), and the totals.
PostCommit ==
    /\ pc = "post_commit"
    /\ pc' = "done"
    /\ phases' = Append(phases, <<"post_commit">>)
    /\ UNCHANGED <<unitVars, notFoundVars, runVars, live, rawData, updates, sourceVars, rowVars, values,
                   results, applyVars, created_for, nrows>>

\* The values the hooks of the task return.
pre_process == IF task = "MyTask" THEN [bar |-> 1] ELSE EmptyMap

post_process == IF task = "MyTask" THEN [foo |-> 0] ELSE EmptyMap

pre_commit == EmptyMap

post_commit == EmptyMap

\* do: the dictionary it returns.
Returned ==
    [preprocess |-> pre_process, sources |-> results,
     postprocess |-> post_process, precommit |-> pre_commit,
     postcommit |-> post_commit, rejected |-> totals.rejected,
     updated |-> totals.updated, created |-> totals.created,
     history_created |-> totals.history_created]

Next ==
    \/ PreProcess
    \/ GetModelData
    \/ StartSource
    \/ ReadRow
    \/ ColumnStep
    \/ ValidateRow
    \/ EndSource
    \/ PostProcess
    \/ ApplyUpdates
    \/ PreCommit
    \/ Commit
    \/ PostCommit

Spec == Init /\ [][Next]_vars

(***************************************************************************)
(* Two runs in a row: the second run reads the rows the first read, from   *)
(* the database the first run committed.                                   *)
(***************************************************************************)
\* No source and no default validation rejected anything in the run.
NothingRejected ==
    /\ \A i \in 1..Len(results) : results[i].rejected = 0
    /\ totals.rejected = 0

\* The models db.session.add registered, in order.
RECURSIVE AddedModels(_)
AddedModels(ss) ==
    IF ss = <<>> THEN <<>>
    ELSE IF Head(ss).kind = "model"
         THEN <<live[Head(ss).item]>> \o AddedModels(Tail(ss))
         ELSE AddedModels(Tail(ss))

\* The database after the commit: the records it held, as the run left
\* them, and the models the run registered.
Committed == SubSeq(live, 1, Len(initial)) \o AddedModels(session)

\* A new task object runs do() on the committed database.
Rerun ==
    /\ pc = "done"
    /\ run = 1
    /\ commits = 1
    /\ NothingRejected
    /\ run' = 2
    /\ live' = Committed
    /\ initial' = Committed
    /\ pc' = "pre_process"
    /\ rawData' = <<>>
    /\ updates' = <<>>
    /\ si' = 1
    /\ importer_mapping' = EmptyMap
    /\ data' = EmptyMap
    /\ dataNotRead' = {}
    /\ cnt' = ZeroCounters
    /\ line_idx' = 0
    /\ values' = EmptyMap
    /\ results' = <<>>
    /\ queue' = <<>>
    /\ totals' = ZeroTotals
    /\ session' = <<>>
    /\ history_models' = {}
    /\ applied' = <<>>
    /\ commits' = 0
    /\ created_for' = EmptyMap
    /\ nrows' = 0
    /\ started' = {}
    /\ matched' = {}
    /\ on_data_not_found' = <<>>
    /\ phases' = <<>>
    /\ UNCHANGED <<unitVars, task, first, log, rowVars>>

InitRerun ==
    /\ task \in TaskNames
    /\ live \in InitialData
    /\ initial = live
    /\ run = 1
    /\ first = None
    /\ InitRun
    /\ invocations = NoInvocations

NextRerun ==
    \/ PreProcess
    \/ GetModelData
    \/ StartSource
    \/ ReadRow
    \/ ColumnStep
    \/ ValidateRow
    \/ EndSource
    \/ PostProcess
    \/ ApplyUpdates
    \/ PreCommit
    \/ Commit
    \/ PostCommit
    \/ Rerun

SpecRerun == InitRerun /\ [][NextRerun]_vars

(***************************************************************************)
(* Two runs side by side: the same task on the same records and the same   *)
(* rows, once as a dry run and once not.                                   *)
(***************************************************************************)
\* A new task object, built with the other value of dryrun, runs do() on
\* the records the first run started from.
Redo ==
    /\ pc = "done"
    /\ run = 1
    /\ first = None
    /\ first' = Some([returned |-> Returned, live |-> live, session |-> session,
                      commits |-> commits, dryrun |-> dryrun])
    /\ run' = 2
    /\ live' = initial
    /\ pc' = "pre_process"
    /\ rawData' = <<>>
    /\ updates' = <<>>
    /\ si' = 1
    /\ importer_mapping' = EmptyMap
    /\ data' = EmptyMap
    /\ dataNotRead' = {}
    /\ cnt' = ZeroCounters
    /\ line_idx' = 0
    /\ values' = EmptyMap
    /\ results' = <<>>
    /\ queue' = <<>>
    /\ totals' = ZeroTotals
    /\ session' = <<>>
    /\ history_models' = {}
    /\ applied' = <<>>
    /\ commits' = 0
    /\ created_for' = EmptyMap
    /\ nrows' = 0
    /\ started' = {}
    /\ matched' = {}
    /\ on_data_not_found' = <<>>
    /\ phases' = <<>>
    /\ UNCHANGED <<unitVars, task, initial, log, rowVars>>

NextDryRun ==
    \/ PreProcess
    \/ GetModelData
    \/ StartSource
    \/ ReadRow
    \/ ColumnStep
    \/ ValidateRow
    \/ EndSource
    \/ PostProcess
    \/ ApplyUpdates
    \/ PreCommit
    \/ Commit
    \/ PostCommit
    \/ Redo

SpecDryRun == InitRerun /\ [][NextDryRun]_vars

(***************************************************************************)
(* A Mapping on its own: columns are registered with auto() and col() in   *)
(* the constructor of a concrete Mapping, then _complete_from_model binds  *)
(* the Mapping to the destination model, once or twice.                    *)
(***************************************************************************)
MaxRegistrations == 2

\* The attribute names a concrete Mapping gives its columns.
UnitNames == {"id", "col1", "flag", "amount", "day", "at", "hour", "blob"}

\* formatting.str2bool, passed as the parser argument of a Column.
ExplicitParser == Some([fn |-> "str2bool", maxlength |-> None])

\* The arguments of col(): an index (int) or a name in A1 notation (str).
ColArgs ==
    {[str |-> FALSE, int |-> 2, name |-> <<>>],
     [str |-> TRUE, int |-> 0, name |-> <<"A">>],
     [str |-> TRUE, int |-> 0, name |-> <<"a", "B", "1">>]}

\* string.ascii_letters, and ord(c.upper()) - ord("A") + 1 for a letter c.
Upper ==
    <<"A", "B", "C", "D", "E", "F", "G", "H", "I", "J", "K", "L", "M",
      "N", "O", "P", "Q", "R", "S", "T", "U", "V", "W", "X", "Y", "Z">>

Lower ==
    <<"a", "b", "c", "d", "e", "f", "g", "h", "i", "j", "k", "l", "m",
      "n", "o", "p", "q", "r", "s", "t", "u", "v", "w", "x", "y", "z">>

IsLetter(c) == \E i \in 1..Len(Upper) : Upper[i] = c \/ Lower[i] = c

LetterRank(c) == CHOOSE i \in 1..Len(Upper) : Upper[i] = c \/ Lower[i] = c

\* helpers.col2num: the loop over the first n characters of col.
RECURSIVE col2numLoop(_, _)
col2numLoop(col, n) ==
    IF n = 0 THEN 0
    ELSE IF IsLetter(col[n])
         THEN col2numLoop(col, n - 1) * Len(Upper) + LetterRank(col[n])
         ELSE col2numLoop(col, n - 1)

\* helpers.col2num, were it to count columns from 1.
col2num_OneBased(col) == col2numLoop(col, Len(col))

\* helpers.col2num.
col2num(col) == col2numLoop(col, Len(col)) - 1

\* Registrations happen in the constructor, before the Mapping is bound.
Registering ==
    /\ Len(mapping_obj.names) < MaxRegistrations
    /\ IF ret = None THEN TRUE ELSE Val(ret).op \in {"auto", "col"}

\* self.<name> = Column(number, parser).
Registered(name, number, parser, counter) ==
    [auto_counter |-> counter,
     names |-> Append(mapping_obj.names, name),
     columns |-> (name :> [Column(number, TRUE, FALSE, FALSE)
                              EXCEPT !.parser = parser])
                 @@ mapping_obj.columns]

importVars ==
    <<pc, runVars, live, rawData, updates, sourceVars, rowVars, values,
      results, applyVars, created_for, nrows, notFoundVars, phases,
      invocations>>

\* self.<name> = self.auto(parser).
auto ==
    \E name \in UnitNames \ DOMAIN mapping_obj.columns,
       parser \in {None, ExplicitParser} :
        /\ Registering
        /\ LET val == mapping_obj.auto_counter
           IN  mapping_obj' = Registered(name, val, parser, val + 1)
        /\ ret' = Some([op |-> "auto", name |-> name, column |-> None])
        /\ UNCHANGED importVars

\* self.<name> = self.col(column, parser).
col ==
    \E name \in UnitNames \ DOMAIN mapping_obj.columns,
       column \in ColArgs, parser \in {None, ExplicitParser} :
        /\ Registering
        /\ LET column_idx == IF column.str THEN col2num(column.name)
                             ELSE column.int
           IN  mapping_obj' = Registered(name, column_idx, parser, column_idx + 1)
        /\ ret' = Some([op |-> "col", name |-> name, column |-> Some(column)])
        /\ UNCHANGED importVars

\* The position in get_columns of the first column at which
\* _complete_from_model raises in its loop, 0 when the loop ends.
FirstRaise(mapping) ==
    LET cols == get_columns(mapping)
        bad == {i \in 1..Len(cols) :
                   \/ /\ mapping[cols[i]].kind = "Column"
                      /\ BoundMapping(mapping)[cols[i]].parser = None
                   \/ /\ mapping[cols[i]].kind = "ComputedColumn"
                      /\ mapping[cols[i]].computer = None}
    IN  IF bad = {} THEN 0 ELSE CHOOSE i \in bad : \A j \in bad : i <= j

\* The columns _complete_from_model leaves: those its loop reached are bound.
CompletedColumns(mapping) ==
    LET cols == get_columns(mapping)
        reached(n) == \E i \in 1..Len(cols) :
                          /\ cols[i] = n
                          /\ FirstRaise(mapping) = 0 \/ i < FirstRaise(mapping)
    IN  [n \in DOMAIN mapping |->
            IF reached(n) THEN BoundMapping(mapping)[n] ELSE mapping[n]]

\* mapping._complete_from_model(MyModel()), a first and a second time.
CompleteFromModel ==
    /\ mapping_obj.names # <<>>
    /\ Val(ret).op = "_complete_from_model" => ~Val(ret).again
    /\ mapping_obj' = [mapping_obj EXCEPT
                          !.columns = CompletedColumns(mapping_obj.columns)]
    /\ ret' = Some([op |-> "_complete_from_model",
                    raised |-> BindFails(mapping_obj.columns),
                    again |-> Val(ret).op = "_complete_from_model"])
    /\ UNCHANGED importVars

InitMapping ==
    /\ task = "MyTask"
    /\ live = <<>>
    /\ initial = live
    /\ run = 0
    /\ first = None
    /\ InitRun
    /\ invocations = NoInvocations

NextMapping ==
    \/ auto
    \/ col
    \/ CompleteFromModel

SpecMapping == InitMapping /\ [][NextMapping]_vars

(***************************************************************************)
(* Columns on their own: get and get_raw_values are called on columns and  *)
(* fields over rows that change between the calls, and _Caching.values is  *)
(* cleared now and then.  A column object is its own key in                *)
(* _Caching.values.                                                        *)
(***************************************************************************)
\* mapping.ComputedField.__init__ with its defaults.
ComputedField(columns, computer) ==
    [kind |-> "ComputedField",
     columns |-> columns,
     computer |-> computer,
     warn_on_error |-> TRUE,
     should_update |-> TRUE,
     should_update_only_if_null |-> FALSE,
     keep_history |-> FALSE]

IntParser == Some([fn |-> "str2intnullable", maxlength |-> None])

IdentityParser == Some([fn |-> "identity", maxlength |-> None])

\* Column(0, str2intnullable), Column(1, str2intnullable) and
\* ComputedColumn([col, col2], computer=my_computer) of test_computedcolumn.
TestCol == [Column(0, TRUE, FALSE, FALSE) EXCEPT !.parser = IntParser]

TestCol2 == [Column(1, TRUE, FALSE, FALSE) EXCEPT !.parser = IntParser]

TestComputedCol == ComputedColumn(<<TestCol, TestCol2>>, Some("my_computer"))

\* ComputedColumn([col2, col], computer=list).
TestListCol == ComputedColumn(<<TestCol2, TestCol>>, Some("list"))

\* A Column that reads "" past the end of the row, as col2 of
\* test_column_outofrange: Column(1, str2intnullable,
\* fail_on_out_of_range=False).
TestLenientCol ==
    [Column(1, TRUE, FALSE, FALSE) EXCEPT !.parser = IntParser,
                                          !.fail_on_out_of_range = FALSE]

\* Field("col1") and Field("col2") with the parser binding gives them, and a
\* ComputedField over the two with list as computer.
TestField == [Field("col1", TRUE) EXCEPT !.parser = IdentityParser]

TestField2 == [Field("col2", TRUE) EXCEPT !.parser = IdentityParser]

TestComputedField == ComputedField(<<TestField, TestField2>>, Some("list"))

PositionalColumns ==
    {TestCol, TestCol2, TestLenientCol, TestComputedCol, TestListCol}

\* Field("parent.col1") and Field("parent.parent.col1"), and the col1 of a
\* Mapping whose constructor says self.col1 = Field(warn_on_error=False),
\* after _complete_from_model.
TestDottedField == [Field("parent.col1", TRUE) EXCEPT !.parser = IdentityParser]

TestDeepField ==
    [Field("parent.parent.col1", TRUE) EXCEPT !.parser = IdentityParser]

TestMappedField == BoundMapping([col1 |-> Field("", FALSE)]).col1

DottedColumns == {TestDottedField, TestDeepField, TestMappedField}

ObjectColumns == {TestField, TestField2, TestComputedField}

\* The rows the columns are read from: lists of strings ...
UnitRows ==
    {<< <<"1">>, <<"2">> >>, << <<"1">>, <<>> >>, << <<>>, <<"2">> >>,
     << <<"3">> >>, <<>>}

\* ... objects whose parent attribute is None or another object ...
NestedObjects ==
    {<< <<"col1", Some(<<"Z">>)>>, <<"parent", None>> >>,
     << <<"col1", Some(<<"Z">>)>>,
        <<"parent", Some(<< <<"col1", Some(<<"P">>)>>, <<"parent", None>> >>)>> >>,
     << <<"col1", Some(<<"Z">>)>>,
        <<"parent", Some(<< <<"col1", None>>,
                            <<"parent", Some(<< <<"col1", Some(<<"G">>)>> >>)>> >>)>> >>,
     << <<"col1", Some(<<"Z">>)>>,
        <<"parent", Some(<< <<"col2", Some(<<"W">>)>> >>)>> >>}

\* ... and objects with attributes.
UnitObjects == ObjectPool

\* my_computer of test_computedcolumn: the sum, None counting as 0.
my_computer(x) ==
    Some((IF x[1] # None THEN Val(x[1]) ELSE 0)
         + (IF x[2] # None THEN Val(x[2]) ELSE 0))

\* self.computer(values).
ApplyComputer(computer, x) ==
    IF Val(computer) = "my_computer" THEN my_computer(x) ELSE x

\* Column.get and Field.get: the cached value, or the parsed value, stored,
\* or the exception of reading the row.
PlainGet_NoStore(column, r, cache) ==
    IF column \in DOMAIN cache
    THEN [raised |-> FALSE, value |-> cache[column], cache |-> cache]
    ELSE IF \/ ColumnRaises(column, column, r, cache)
            \/ ColumnErrors(column, column, r, cache)
    THEN [raised |-> TRUE, value |-> None, cache |-> cache]
    ELSE [raised |-> FALSE,
          value |-> ColumnGet(column, column, r, cache),
          cache |-> cache]

PlainGet_Lenient(column, r, cache) ==
    IF column \in DOMAIN cache
    THEN [raised |-> FALSE, value |-> cache[column], cache |-> cache]
    ELSE IF ColumnErrors(column, column, r, cache)
    THEN [raised |-> TRUE, value |-> None, cache |-> cache]
    ELSE [raised |-> FALSE,
          value |-> ColumnGet(column, column, r, cache),
          cache |-> CacheAfterGet(column, column, r, cache)]

PlainGet(column, r, cache) ==
    IF column \in DOMAIN cache
    THEN [raised |-> FALSE, value |-> cache[column], cache |-> cache]
    ELSE IF \/ ColumnRaises(column, column, r, cache)
            \/ ColumnErrors(column, column, r, cache)
    THEN [raised |-> TRUE, value |-> None, cache |-> cache]
    ELSE [raised |-> FALSE,
          value |-> ColumnGet(column, column, r, cache),
          cache |-> CacheAfterGet(column, column, r, cache)]

\* [x.get(row) for x in columns]: the values in order, each get working on
\* the cache the one before it left; the first exception ends the list.
RECURSIVE GetAll(_, _, _)
GetAll(columns, r, cache) ==
    IF columns = <<>>
    THEN [raised |-> FALSE, value |-> <<>>, cache |-> cache]
    ELSE LET g == PlainGet(Head(columns), r, cache)
             rest == GetAll(Tail(columns), r, g.cache)
         IN  IF g.raised THEN g
             ELSE IF rest.raised THEN rest
             ELSE [raised |-> FALSE,
                   value |-> <<g.value>> \o rest.value,
                   cache |-> rest.cache]

\* ComputedColumn.get and ComputedField.get, were the sub-columns read in
\* reverse order.
RECURSIVE Reversed(_)
Reversed(x) == IF x = <<>> THEN <<>> ELSE Append(Reversed(Tail(x)), Head(x))

ComputedGet_Reversed(column, r, cache) ==
    IF column \in DOMAIN cache
    THEN [raised |-> FALSE, value |-> cache[column], cache |-> cache]
    ELSE LET all == GetAll(Reversed(column.columns), r, cache)
             val == ApplyComputer(column.computer, all.value)
         IN  IF all.raised THEN all
             ELSE [raised |-> FALSE,
                   value |-> val,
                   cache |-> (column :> val) @@ all.cache]

\* ComputedColumn.get and ComputedField.get.
ComputedGet(column, r, cache) ==
    IF column \in DOMAIN cache
    THEN [raised |-> FALSE, value |-> cache[column], cache |-> cache]
    ELSE LET all == GetAll(column.columns, r, cache)
             val == ApplyComputer(column.computer, all.value)
         IN  IF all.raised THEN all
             ELSE [raised |-> FALSE,
                   value |-> val,
                   cache |-> (column :> val) @@ all.cache]

\* column.get(row) for the four kinds of columns that cache.
GetResult(column, r, cache) ==
    IF column.kind \in {"ComputedColumn", "ComputedField"}
    THEN ComputedGet(column, r, cache)
    ELSE PlainGet(column, r, cache)

\* str() of an attribute that is a str or None.
StrOf(v) == IF v = None THEN <<"N", "o", "n", "e">> ELSE Val(v)

\* Column.get_raw_values and Field.get_raw_values: a list of one string, or
\* the exception of reading the row.
PlainRawValues(column, r) ==
    IF RawValuesRaise(column, r) THEN [raised |-> TRUE, value |-> <<>>]
    ELSE IF column.kind = "Field"
    THEN [raised |-> FALSE, value |-> <<StrOf(FieldGet(column, r))>>]
    ELSE [raised |-> FALSE, value |-> <<get_raw_values(column, r)>>]

\* ComputedColumn.get_raw_values and ComputedField.get_raw_values: the
\* sub-columns' lists, one after the other.
RECURSIVE ExtendAll(_, _)
ExtendAll(columns, r) ==
    IF columns = <<>> THEN [raised |-> FALSE, value |-> <<>>]
    ELSE LET x == PlainRawValues(Head(columns), r)
             rest == ExtendAll(Tail(columns), r)
         IN  IF x.raised THEN x
             ELSE IF rest.raised THEN rest
             ELSE [raised |-> FALSE, value |-> x.value \o rest.value]

\* column.get_raw_values(row).
RawValues(column, r) ==
    IF column.kind \in {"ComputedColumn", "ComputedField"}
    THEN ExtendAll(column.columns, r)
    ELSE PlainRawValues(column, r)

\* The columns that can read the row at hand.
ColumnsFor(r) ==
    IF r \in UnitRows THEN PositionalColumns
    ELSE IF r \in NestedObjects THEN DottedColumns
    ELSE ObjectColumns

runState ==
    <<pc, runVars, live, rawData, updates, sourceVars, id, item, creating, ci,
      hooks, last_outcome, results, applyVars, created_for, nrows,
      notFoundVars, phases>>

\* The caller moves on to another row, a list of strings.
NextRow ==
    /\ \E r \in UnitRows \ {row} : row' = r
    /\ ret' = None
    /\ UNCHANGED <<runState, values, mapping_obj, invocations>>

\* The caller moves on to another row, an object.
NextObject ==
    /\ \E r \in UnitObjects \ {row} : row' = r
    /\ ret' = None
    /\ UNCHANGED <<runState, values, mapping_obj, invocations>>

\* The caller moves on to another row, an object with a parent.
NextNested ==
    /\ \E r \in NestedObjects \ {row} : row' = r
    /\ ret' = None
    /\ UNCHANGED <<runState, values, mapping_obj, invocations>>

\* column.get(row).
Get ==
    \E column \in ColumnsFor(row) :
        LET g == GetResult(column, row, values)
        IN  /\ values' = g.cache
            /\ ret' = Some([op |-> "get", column |-> column,
                            raised |-> g.raised, value |-> g.value])
            /\ UNCHANGED <<runState, row, mapping_obj, invocations>>

\* column.get_raw_values(row).
GetRawValues ==
    \E column \in ColumnsFor(row) :
        LET g == RawValues(column, row)
        IN  /\ ret' = Some([op |-> "get_raw_values", column |-> column,
                            raised |-> g.raised, value |-> g.value])
            /\ UNCHANGED <<runState, row, values, mapping_obj, invocations>>

\* _Caching.values.clear().
Clear ==
    /\ values # EmptyMap
    /\ values' = EmptyMap
    /\ ret' = None
    /\ UNCHANGED <<runState, row, mapping_obj, invocations>>

InitColumns == InitMapping

NextColumns ==
    \/ NextRow
    \/ NextObject
    \/ Get
    \/ GetRawValues
    \/ Clear

SpecColumns == InitColumns /\ [][NextColumns]_vars

\* The Fields with a path on the objects with a parent.
NextFields ==
    \/ NextNested
    \/ Get
    \/ GetRawValues
    \/ Clear

SpecFields == InitColumns /\ [][NextFields]_vars

(***************************************************************************)
(* Row-processing steps at the same time: each one runs the lines of       *)
(* _parseSource that clear _Caching.values, read the key and read the      *)
(* columns, on the one dictionary of the class _Caching.                   *)
(***************************************************************************)
MaxConcurrentRows == 2

\* The mapping the sources of the invocations bind.
ConcurrentMapping == BoundMapping(PlainMapping)

\* The rows the invocations read.
ConcurrentRows == {RowA, RowB}

\* The order of the calls of get for one row: get_key, then the columns of
\* get_columns().
GetOrder == <<get_key_column_name>> \o get_columns(ConcurrentMapping)

\* The key of a column in _Caching.values, the column object itself: the
\* invocations share it when they work on the same source object, and have
\* one each otherwise.
InvocationKey(t, name) == <<IF invocations.shared THEN 0 ELSE t, name>>

Idle == [pos |-> 0, phase |-> "check", row |-> <<>>, rows |-> 0, got |-> <<>>,
         stored |-> {}]

\* _parseSource, lines 227 to 229: the next row of invocation t, with
\* _Caching.values.clear() before its key is read.
StartRow(t) ==
    /\ invocations.of[t].pos = 0
    /\ invocations.of[t].rows < MaxConcurrentRows
    /\ \E r \in ConcurrentRows :
          invocations' = [invocations EXCEPT
                            !.of[t] = [pos |-> 1, phase |-> "check", row |-> r,
                                       rows |-> @.rows + 1, got |-> <<>>,
                                       stored |-> {}]]
    /\ values' = EmptyMap
    /\ UNCHANGED <<runState, row, mapping_obj, ret>>

\* Column.get: `if self in _Caching.values`.
GetCheck(t) ==
    LET me == invocations.of[t]
    IN  /\ me.pos \in 1..Len(GetOrder)
        /\ me.phase = "check"
        /\ invocations' = [invocations EXCEPT
                              !.of[t].phase =
                                  IF InvocationKey(t, GetOrder[me.pos]) \in DOMAIN values
                                  THEN "hit" ELSE "miss"]
        /\ UNCHANGED <<runState, row, mapping_obj, ret, values>>

\* Column.get: `return _Caching.values[self]`, a KeyError when the entry is
\* gone.
GetHit(t) ==
    LET me == invocations.of[t]
        name == GetOrder[me.pos]
        key == InvocationKey(t, name)
    IN  /\ me.pos \in 1..Len(GetOrder)
        /\ me.phase = "hit"
        /\ invocations' = [invocations EXCEPT
                              !.of[t].phase = "check",
                              !.of[t].pos = @ + 1,
                              !.of[t].got =
                                  Append(@, IF key \in DOMAIN values
                                            THEN [name |-> name, raised |-> FALSE,
                                                  value |-> values[key]]
                                            ELSE [name |-> name, raised |-> TRUE,
                                                  value |-> None])]
        /\ UNCHANGED <<runState, row, mapping_obj, ret, values>>

\* Column.get: the parser applied to the raw value of the row, stored in
\* _Caching.values and returned.
GetMiss(t) ==
    LET me == invocations.of[t]
        name == GetOrder[me.pos]
        val == GetUncached(ConcurrentMapping[name], me.row)
    IN  /\ me.pos \in 1..Len(GetOrder)
        /\ me.phase = "miss"
        /\ values' = (InvocationKey(t, name) :> val) @@ values
        /\ invocations' = [invocations EXCEPT
                              !.of[t].phase = "check",
                              !.of[t].pos = @ + 1,
                              !.of[t].stored = @ \cup {name},
                              !.of[t].got = Append(@, [name |-> name,
                                                       raised |-> FALSE,
                                                       value |-> val])]
        /\ UNCHANGED <<runState, row, mapping_obj, ret>>

\* The column loop of the row is over.
EndRow(t) ==
    /\ invocations.of[t].pos = Len(GetOrder) + 1
    /\ invocations' = [invocations EXCEPT !.of[t].pos = 0]
    /\ UNCHANGED <<runState, row, mapping_obj, ret, values>>

InitConcurrent ==
    /\ task = "PlainTask"
    /\ live = <<>>
    /\ initial = live
    /\ run = 0
    /\ first = None
    /\ InitRun
    /\ invocations \in {[shared |-> b, of |-> [t \in 1..2 |-> Idle]] : b \in BOOLEAN}

NextConcurrent ==
    \E t \in 1..2 :
        \/ StartRow(t)
        \/ GetCheck(t)
        \/ GetHit(t)
        \/ GetMiss(t)
        \/ EndRow(t)

SpecConcurrent == InitConcurrent /\ [][NextConcurrent]_vars

(***************************************************************************)
(* Properties.                                                             *)
(***************************************************************************)
\* A step of the row loop that reads a row.
ReadsRow == pc = "rows" /\ line_idx' = line_idx + 1

\* Row r is past the header lines of the current source.
PastHeader == line_idx > Sources[si].header

\* The key of row r extracts, and extracts to None.
NullKey(r) ==
    /\ ~KeyRaises(r)
    /\ get_key(r) = None

\* C1: a non-header row that should_import accepts and whose key extracts to
\* None adds exactly one to ignored_missing_id and nothing to the other
\* counters (read included); it creates no record, stages and cancels no
\* update, leaves the unmatched set and the working set as they were, and
\* the loop goes on to the next row.
C1_NullKeyIgnored ==
    [][ReadsRow /\ PastHeader /\ hooks'.should_import /\ NullKey(row')
         => /\ cnt' = Bump(cnt, "ignored_missing_id")
            /\ live' = live
            /\ updates' = updates
            /\ dataNotRead' = dataNotRead
            /\ rawData' = rawData
            /\ data' = data
            /\ pc' = "rows"]_vars

\* C1 witness: the row just read, past the header and accepted by
\* should_import, had a None key and was counted.
C1_Witness ==
    /\ pc = "rows"
    /\ line_idx > Sources[si].header + 1
    /\ row # <<>>
    /\ hooks.should_import
    /\ NullKey(row)
    /\ cnt.ignored_missing_id >= 1
    /\ dataNotRead # {}

\* A step of the column loop, on the update path.
UpdatesColumn == pc = "columns" /\ ci' = ci + 1 /\ ~creating

\* The pending value of a field of an item: <<v>> when v is staged, <<>>
\* when nothing is.
Pending(u, x, column) ==
    IF is_updated(u, x, column) THEN <<Entry(u, x).vals[column]>> ELSE <<>>

\* The column the column loop was at in the step before.
LastColumnName == get_columns(importer_mapping)[ci - 1]

\* What the row last read carries for a column of the current source.
RowValue(name) == ApplyParser(importer_mapping[name].parser,
                              get_raw_values(importer_mapping[name], row))

\* C2: on the update path, the step of the column loop at a column with
\* should_update = False leaves the pending value of the field, its history
\* flag and the live record as they were, whatever the row carries.
C2_ShouldUpdateFalseFrame ==
    [][UpdatesColumn /\ ~importer_mapping[ColumnName].should_update
         => /\ Pending(updates', item, ColumnName) = Pending(updates, item, ColumnName)
            /\ updates' = updates
            /\ live' = live]_vars

\* C2 witness: the column loop has just passed a should_update = False column
\* of a matched record for which the row carries another value than the
\* record holds.
C2_Witness ==
    /\ pc \in {"columns", "validate"}
    /\ ci > 1
    /\ ~creating
    /\ last_outcome = "skip_should_update"
    /\ ~importer_mapping[LastColumnName].should_update
    /\ RowValue(LastColumnName) # live[item][LastColumnName]

\* C3: on the update path, at a column with should_update_only_if_null the
\* pending value of the field changes only if the effective value (staged if
\* pending, else live) was None; when it is not None the step changes
\* neither the pending set nor the record.
C3_OnlyIfNull ==
    [][UpdatesColumn /\ importer_mapping[ColumnName].should_update_only_if_null
         => /\ Pending(updates', item, ColumnName) # Pending(updates, item, ColumnName)
                => get_updated_value_for(updates, live, item, ColumnName) = None
            /\ get_updated_value_for(updates, live, item, ColumnName) # None
                => updates' = updates /\ live' = live]_vars

\* C3 witness: in a source whose col2 is should_update_only_if_null, one row
\* staged col2 on a record that held None, and the row just read carried
\* another value than the non-null one its record holds and was skipped.
C3_Witness ==
    /\ pc \in {"columns", "validate"}
    /\ ci > 1
    /\ ~creating
    /\ last_outcome = "skip_not_null"
    /\ importer_mapping[LastColumnName].should_update_only_if_null
    /\ live[item][LastColumnName] # None
    /\ RowValue(LastColumnName) # live[item][LastColumnName]
    /\ \E i \in 1..Len(updates) :
          /\ updates[i].item # item
          /\ ~updates[i].creating
          /\ LastColumnName \in DOMAIN updates[i].vals
          /\ live[updates[i].item][LastColumnName] = None

\* The column loop parses the column it is at: the column is not skipped and
\* its get does not raise.
ParsesColumn ==
    /\ ColumnOutcome(ColumnName) \notin {"skip_should_update", "skip_not_null"}
    /\ ~ColumnRaises(importer_mapping[ColumnName], ColumnKey(ColumnName), row, values)
    /\ ~ColumnErrors(importer_mapping[ColumnName], ColumnKey(ColumnName), row, values)

\* What the column loop parses the column it is at to.
ParsedValue ==
    ColumnGet(importer_mapping[ColumnName], ColumnKey(ColumnName), row, values)

\* The entry of an item in self.updates but for one field.
EntryWithout(u, x, column) ==
    [vals |-> [c \in DOMAIN Entry(u, x).vals \ {column} |-> Entry(u, x).vals[c]],
     hist |-> Entry(u, x).hist \ {column},
     creating |-> Entry(u, x).creating]

\* The step that parses a staged field to the value the record held before
\* the run removes the staged value and its history flag, and the whole
\* entry if nothing else is staged; the rest of self.updates stays.
C4_CancelStep ==
    /\ UpdatesColumn
    /\ ParsesColumn
    /\ is_updated(updates, item, ColumnName)
    /\ ParsedValue = PreRun(item)[ColumnName]
    => /\ ~is_updated(updates', item, ColumnName)
       /\ live' = live
       /\ \A i \in 1..Len(updates) :
             updates[i].item # item
                => /\ InUpdates(updates', updates[i].item)
                   /\ Entry(updates', updates[i].item) = updates[i]
       /\ IF DOMAIN Entry(updates, item).vals = {ColumnName}
          THEN ~InUpdates(updates', item)
          ELSE /\ InUpdates(updates', item)
               /\ ColumnName \notin Entry(updates', item).hist
               /\ EntryWithout(updates', item, ColumnName)
                    = EntryWithout(updates, item, ColumnName)

\* When the run is over, a field with nothing staged holds the value it
\* held before the run, and a record with no pending entry was not counted
\* as updated.
C4_EndOfRun ==
    pc = "done"
        => \A x \in 1..Len(live) :
              /\ \A f \in Fields :
                    ~is_updated(updates, x, f) => live[x][f] = PreRun(x)[f]
              /\ ~InUpdates(updates, x)
                    => \A i \in 1..Len(applied) :
                          applied[i].item = x => applied[i].res = "none"

\* C4: redundant-update cancellation.  A later row that parses a staged
\* field to the record's pre-run value removes the staged value with its
\* history flag, and the whole pending entry if that field was the only one
\* staged; the record then ends the run with the field at its pre-run
\* value and is not counted as updated.
C4_RedundantUpdateCancelled == [][C4_CancelStep]_vars /\ []C4_EndOfRun

\* C4 witness: the column loop has just cancelled the only
\* staged field of a record, a field whose changes are history-tracked.
C4_Witness ==
    /\ pc \in {"columns", "validate"}
    /\ last_outcome = "cancel"
    /\ ~InUpdates(updates, item)
    /\ importer_mapping[LastColumnName].keep_history
    /\ Task(task).keep_history
    /\ RowValue(LastColumnName) = PreRun(item)[LastColumnName]

\* In the second of two runs, the entry the first run logged for the row
\* the column loop is processing.
LoggedRow == log[si][DataRowsRead]

\* What the row staged in the first run was applied and committed: the
\* database the second run starts from holds it.
WasApplied(e) ==
    /\ e.sets # {}
    /\ e.item = item
    /\ \A s \in e.sets : initial[e.item][s[1]] = s[2]

\* The step of the column loop stages a value for the column it is at.
StagesColumn ==
    /\ pc = "columns"
    /\ ci' = ci + 1
    /\ is_updated(updates', item, ColumnName)
    /\ Pending(updates', item, ColumnName) # Pending(updates, item, ColumnName)

\* The second run is past its matching phase.
SecondRunMatched == run = 2 /\ pc \in {"apply", "commit", "post_commit", "done"}

\* The second run is over and reports no creation, update or history.
C5_NothingReported ==
    run = 2 /\ pc = "done"
        => /\ totals.created = 0
           /\ totals.updated = 0
           /\ totals.history_created = 0

OnlyRowOfItem ==
    \A s \in 1..Len(log) : \A k \in 1..Len(log[s]) :
        log[s][k].item = item => s = si /\ k = DataRowsRead

HistoryEntries(x) ==
    {i \in 1..Len(session) : session[i].kind = "history" /\ session[i].item = x}

\* The item was created in the run by createModel.
CreatedInRun(x) == x > Len(initial)

\* The fields every source of the task that may update them tracks.
TrackedFields ==
    {f \in Fields :
        /\ \E s \in 1..Len(Sources) :
              f \in DOMAIN Sources[s].mapping /\ Sources[s].mapping[f].keep_history
        /\ \A s \in 1..Len(Sources) :
              f \in DOMAIN Sources[s].mapping /\ Sources[s].mapping[f].should_update
                 => Sources[s].mapping[f].keep_history}

\* C6: with history capture enabled for the run, at most one History
\* Companion is registered per record, and history_created counts them; a
\* companion is registered only for a record the run updated, never for a
\* record the run created, and each field it tracks went from its pre-run
\* value to a different applied value; when the run is over, every updated
\* record with a changed tracked field has its companion.
C6_History ==
    Task(task).keep_history
        => /\ \A x \in 1..Len(live) : Cardinality(HistoryEntries(x)) <= 1
           /\ totals.history_created
                 = Cardinality({i \in 1..Len(session) : session[i].kind = "history"})
           /\ \A i \in 1..Len(session) :
                 session[i].kind = "history"
                    => /\ ~CreatedInRun(session[i].item)
                       /\ \E k \in 1..Len(applied) :
                             /\ applied[k].item = session[i].item
                             /\ applied[k].res = "updated"
                       /\ DOMAIN session[i].new # {}
                       /\ \A f \in DOMAIN session[i].new :
                             /\ session[i].old[f] = PreRun(session[i].item)[f]
                             /\ session[i].new[f] = live[session[i].item][f]
                             /\ session[i].new[f] # session[i].old[f]
           /\ pc = "done"
                 => \A k \in 1..Len(applied) :
                       /\ applied[k].res = "updated"
                       /\ \E f \in TrackedFields :
                             live[applied[k].item][f] # PreRun(applied[k].item)[f]
                       => Cardinality(HistoryEntries(applied[k].item)) = 1

\* The matching phase of the first run is over.
FirstRunMatched == run = 1 /\ pc \in {"apply", "commit", "post_commit", "done"}

\* The first source of the run read row r as its only data row, and the
\* second source read none.
OnlyRowRead(r) ==
    /\ Len(log) = 2
    /\ Len(log[1]) = 1
    /\ log[1][1].row = r
    /\ log[2] = <<>>

\* Scenario A: MyTask, whose first source has the key at index 0, col1 with
\* keep_history and col2 with should_update = False, on the record
\* {id: 1, col1: "X", col2: "Y"} and the row ["1", "Z", "W"].
ScenarioA ==
    /\ task = "MyTask"
    /\ initial = <<RecordA>>
    /\ OnlyRowRead(RowA)

\* C7: in Scenario A the matching phase stages exactly {col1: "Z"}; after
\* apply col1 is "Z" and col2 still "Y", updated = 1, and exactly one
\* history entry is registered, with old "X" and new "Z".
C7_ScenarioA ==
    /\ FirstRunMatched /\ ScenarioA
          => updates = <<[item |-> 1, vals |-> ("col1" :> Some(<<"Z">>)),
                          hist |-> {"col1"}, creating |-> FALSE]>>
    /\ run = 1 /\ pc = "done" /\ ScenarioA
          => /\ live = <<[id |-> Some(1), col1 |-> Some(<<"Z">>),
                          col2 |-> Some(<<"Y">>)]>>
             /\ totals = [rejected |-> 0, created |-> 0, updated |-> 1,
                          history_created |-> 1]
             /\ session = <<[kind |-> "history", item |-> 1,
                             old |-> ("col1" :> Some(<<"X">>)),
                             new |-> ("col1" :> Some(<<"Z">>))]>>

\* C7 witness: the run of Scenario A is over.
C7_Witness == run = 1 /\ pc = "done" /\ ScenarioA /\ totals.updated = 1

\* Scenario B: CreateTask, whose first source is CREATE-only, on a
\* database without a record of id 2 and the row ["2", "A", "B"].
ScenarioB ==
    /\ task = "CreateTask"
    /\ initial = <<RecordA>>
    /\ OnlyRowRead(RowB)

\* C8: in Scenario B one record is created, with every column of the row
\* staged on it whatever its should_update and keep_history; after apply it
\* holds {id: 2, col1: "A", col2: "B"}, it is registered for insertion once,
\* created = 1, and no history entry is produced.
C8_ScenarioB ==
    /\ FirstRunMatched /\ ScenarioB
          => updates = <<[item |-> 2,
                          vals |-> [id |-> Some(2), col1 |-> Some(<<"A">>),
                                    col2 |-> Some(<<"B">>)],
                          hist |-> {}, creating |-> TRUE]>>
    /\ run = 1 /\ pc = "done" /\ ScenarioB
          => /\ live = <<RecordA, [id |-> Some(2), col1 |-> Some(<<"A">>),
                                   col2 |-> Some(<<"B">>)]>>
             /\ totals = [rejected |-> 0, created |-> 1, updated |-> 0,
                          history_created |-> 0]
             /\ session = <<[kind |-> "model", item |-> 2]>>
             /\ history_models = {}

\* C8 witness: the run of Scenario B is over.
C8_Witness == run = 1 /\ pc = "done" /\ ScenarioB /\ totals.created = 1

\* The key of row r extracts to a value other than None.
HasKey(r) ==
    /\ ~KeyRaises(r)
    /\ get_key(r) # None

\* A step of the row loop that reads a keyed row past the header which
\* should_import accepts.
ReadsKeyedRow == ReadsRow /\ PastHeader /\ hooks'.should_import /\ HasKey(row')

\* C9: a row that matches no record when the source's mode excludes CREATE
\* adds one to ignored_not_created and creates and stages nothing; a row
\* that matches a record when the mode excludes UPDATE adds one to
\* ignored_not_updated and stages nothing, and the matched record leaves
\* the unmatched set; neither row is counted in read.
C9_ModeExcludes ==
    [][/\ ReadsKeyedRow
          /\ get_key(row') \notin DOMAIN data
          /\ Sources[si].mode \cap CREATE = {}
          => /\ cnt' = Bump(cnt, "ignored_not_created")
             /\ live' = live
             /\ updates' = updates
             /\ rawData' = rawData
             /\ dataNotRead' = dataNotRead
             /\ pc' = "rows"
       /\ ReadsKeyedRow
          /\ get_key(row') \in DOMAIN data
          /\ Sources[si].mode \cap UPDATE = {}
          => /\ cnt' = Bump(cnt, "ignored_not_updated")
             /\ live' = live
             /\ updates' = updates
             /\ rawData' = rawData
             /\ dataNotRead' = dataNotRead \ {data[get_key(row')]}
             /\ pc' = "rows"]_vars

\* C9 witness: the first source, whose mode excludes UPDATE, matched a row
\* to the record of the database and returned its counters; the second,
\* whose mode excludes CREATE, has just read a row that matches no record.
C9_Witness ==
    /\ si = 2
    /\ pc = "rows"
    /\ Sources[1].mode \cap UPDATE = {}
    /\ Sources[2].mode \cap CREATE = {}
    /\ results[1].ignored_not_updated = 1
    /\ results[1].read = 0
    /\ results[1].not_found = Len(initial) - 1
    /\ row # <<>>
    /\ HasKey(row)
    /\ get_key(row) \notin DOMAIN data
    /\ cnt = Bump(ZeroCounters, "ignored_not_created")
    /\ updates = <<>>
    /\ live = initial

\* C10: a record created by a row with key k and accepted by the source's
\* validate_updates joins the working set and the lookup under k in that
\* step; from then on a row with key k, in the same source or a later one,
\* never calls createModel and is matched to that same record, on the
\* update path (creating = False) when the source's mode includes UPDATE.
C10_CreatedRecordMatched ==
    [][/\ pc = "validate" /\ creating /\ pc' = "rows" /\ InUpdates(updates', item)
          => /\ rawData' = Append(rawData, item)
             /\ id \in DOMAIN data' /\ data'[id] = item
       /\ ReadsKeyedRow /\ get_key(row') \in DOMAIN created_for
          => /\ live' = live
             /\ item' = created_for[get_key(row')]
             /\ Sources[si].mode \cap UPDATE # {}
                   => ~creating' /\ pc' = "columns"]_vars

\* C11: with header line number h, a row of index 0..h is skipped whatever
\* it holds: no counter moves, nothing is created, staged or matched and
\* the loop goes on; a row of index above h is processed as data: a counter
\* moves, or the row enters the column loop, or its key raises.  With h = 0
\* the first row is skipped and with h = -1 it is processed.
C11_HeaderRows ==
    [][/\ ReadsRow /\ line_idx \in 0..Sources[si].header
          => /\ cnt' = cnt
             /\ live' = live
             /\ updates' = updates
             /\ rawData' = rawData
             /\ data' = data
             /\ dataNotRead' = dataNotRead
             /\ pc' = "rows"
       /\ ReadsRow /\ line_idx \notin 0..Sources[si].header
          => cnt' # cnt \/ pc' \in {"columns", "failed"}
       /\ ReadsRow /\ line_idx = 0 /\ Sources[si].header = 0
          => cnt' = cnt /\ pc' = "rows"
       /\ ReadsRow /\ line_idx = 0 /\ Sources[si].header = -1
          => cnt' # cnt \/ pc' \in {"columns", "failed"}]_vars

\* C11 witness: a source with the default header line number has just
\* skipped a first row that holds the key of a record of the database.
C11_Witness ==
    /\ pc = "rows"
    /\ Sources[si].header = 0
    /\ line_idx = 1
    /\ row = RowA
    /\ get_key(row) \in DOMAIN data
    /\ cnt = ZeroCounters
    /\ updates = <<>>
    /\ dataNotRead = {rawData[i] : i \in 1..Len(rawData)}


\* The step on which _parseSource leaves the row loop of a source.
EndsSource == pc = "rows" /\ pc' = "sources"

\* The records the source that just finished created and kept.
CreatedBySource == {rawData[i] : i \in 1..Len(rawData)} \ started

\* C12: when a source finishes, on_data_not_found has been called exactly
\* once for each record that was in the working set when the source
\* started and that no row of the source matched by key, and for no other
\* record, so for none the source created; the not_found counter of the
\* source is the number of those calls.
C12_NotFoundCalls ==
    [][EndsSource =>
          LET calls == on_data_not_found'[si]
          IN  /\ Len(on_data_not_found') = si
              /\ DOMAIN calls = started \ matched
              /\ \A x \in DOMAIN calls : calls[x] = 1
              /\ DOMAIN calls \cap CreatedBySource = {}
              /\ results'[si].not_found = Cardinality(started \ matched)]_vars

\* C12 witness: the first source finished after it matched one record,
\* left another unmatched and created a third.
C12_Witness ==
    /\ pc = "sources" /\ si = 2
    /\ Cardinality(DOMAIN on_data_not_found[1]) = 1
    /\ matched # {}
    /\ CreatedBySource # {}
    /\ results[1].not_found = 1

\* The steps of a run that returned, as do and _read order them.
PhasesOfRun ==
    <<<<"pre_process">>, <<"get_model_data">>>>
    \o [i \in 1..Len(Sources) |-> <<"source", i>>]
    \o <<<<"post_process">>>>
    \o [i \in 1..Len(updates) |-> <<"apply", updates[i].item>>]
    \o <<<<"pre_commit">>, <<"commit">>, <<"post_commit">>>>

\* The step on which _read calls post_process.
CallsPostProcess == pc = "sources" /\ pc' = "apply"

\* The items of the pending entries that create a record.
CreatingItems == {updates[i].item : i \in {j \in 1..Len(updates) : updates[j].creating}}

\* C13: a run that returns has taken pre_process, the load of the records,
\* every source in declared order, post_process, the apply of every pending
\* record, pre_commit, the commit action and post_commit, in that order and
\* each once; the results of the sources are in the order of the sources;
\* post_process finds the created records in the working set and no record
\* written yet.
C13_PhaseOrder ==
    /\ [](pc = "done" => phases = PhasesOfRun /\ Len(results) = Len(Sources))
    /\ [][EndsSource => /\ Len(results') = si
                        /\ \A f \in DOMAIN cnt \ {"not_found"} :
                              results'[si][f] = cnt[f]
                        /\ \A i \in 1..Len(results) : results'[i] = results[i]]_vars
    /\ [][CallsPostProcess =>
            /\ CreatingItems \subseteq {rawData[i] : i \in 1..Len(rawData)}
            /\ \A x \in DOMAIN live : live[x] = PreRun(x)
            /\ session = <<>> /\ commits = 0]_vars

\* C13 witness: a run of two sources returned after it applied a created
\* and an updated record and committed once.
C13_Witness ==
    /\ pc = "done" /\ Len(Sources) = 2 /\ commits = 1
    /\ totals.created = 1 /\ totals.updated = 1
    /\ Len(phases) = 10


\* C14: for the same initial records and the same rows, the dry run and
\* the normal run of a task return the same dictionary (the counters of
\* every source, created, updated, history_created, rejected and the four
\* hook outputs) and leave the same records and the same session; they
\* differ in the commit alone, which the dry run does not perform.
C14_DryRunSameResults ==
    pc = "done" /\ first # None =>
        /\ Returned = first[1].returned
        /\ live = first[1].live
        /\ session = first[1].session
        /\ dryrun # first[1].dryrun
        /\ commits = (IF dryrun THEN 0 ELSE 1)
        /\ first[1].commits = (IF first[1].dryrun THEN 0 ELSE 1)

\* C14 witness: both runs returned, each having created one record and
\* updated another, and one of them committed.
C14_Witness ==
    /\ pc = "done" /\ first # None
    /\ Returned.created = 1 /\ Returned.updated = 1
    /\ first[1].returned.created = 1
    /\ commits # first[1].commits

\* self.execute was called with the commit in this run.
CommitInvoked == \E i \in 1..Len(phases) : phases[i] = <<"commit">>

\* The step of the run an exception escaped from.
FailedIn(name) == pc = "failed" /\ phases # <<>> /\ phases[Len(phases)][1] = name

\* C15: a run an exception escaped from, be it raised while binding a
\* mapping, matching a row, in post_process, in the apply phase or in
\* pre_commit, has not invoked the commit action and committed nothing.
C15_NoCommitAfterFailure ==
    /\ [](pc = "failed" => commits = 0 /\ ~CommitInvoked)
    /\ [][pc # "failed" /\ pc' = "failed"
            => /\ pc \in {"sources", "rows", "columns", "apply"}
               /\ \/ FailedIn("source")'
                  \/ FailedIn("post_process")'
                  \/ FailedIn("apply")'
                  \/ FailedIn("pre_commit")']_vars

\* C15 witness: pre_commit raised after the apply phase registered a record
\* for insertion, and nothing was committed.
C15_Witness ==
    /\ FailedIn("pre_commit")
    /\ session # <<>>
    /\ ~Task(task).dryrun

\* The step on which _parseSource binds the mapping of the next source.
BindsSource == pc = "sources" /\ si <= Len(Sources) /\ pc' # "sources"

\* The configuration errors of a mapping: the key column is not among its
\* columns, a computed column has no computer, or a column without a parser
\* is for a field of a type no parser is known for.
ConfigurationError(mapping) ==
    \/ get_key_column_name \notin DOMAIN mapping
    \/ \E n \in DOMAIN mapping :
          mapping[n].kind = "ComputedColumn" /\ mapping[n].computer = None
    \/ \E n \in DOMAIN mapping :
          /\ mapping[n].kind = "Column" /\ mapping[n].parser = None
          /\ Schema[n].type \notin {"Integer", "String"}

\* C16 as stated: when a configuration error of any source is raised, no
\* row of any source of the run has been read.
C16_Original ==
    [][BindsSource /\ ConfigurationError(Sources[si].mapping)
          => pc' = "failed" /\ nrows = 0]_vars

\* C16, amended: a configuration error of a source is raised when that
\* source is bound, before any of its rows is read, and ends the run with
\* nothing committed; the rows of the sources before it have been read by
\* then.  A source without such an error goes on to its rows.
C16_BindingErrors ==
    /\ [][BindsSource =>
            IF ConfigurationError(Sources[si].mapping)
            THEN /\ pc' = "failed"
                 /\ line_idx' = 0 /\ cnt' = ZeroCounters /\ nrows' = nrows
                 /\ Len(results) = si - 1
                 /\ commits' = 0
            ELSE pc' = "rows"]_vars
    /\ [][pc # "failed"]_vars

\* C16 witness: the second source of a task has no key column; binding it
\* raised after the first source read data rows.
C16_Witness ==
    /\ pc = "failed" /\ task = "NoKeyTask" /\ si = 2
    /\ ConfigurationError(Sources[si].mapping)
    /\ line_idx = 0 /\ nrows > 0 /\ results[1].read > 0

\* The step of the column loop on which the get of the column raises
\* AttributeError.
ExtractionError ==
    /\ pc = "columns" /\ ci' = ci + 1
    /\ ColumnOutcome(ColumnName) \notin {"skip_should_update", "skip_not_null"}
    /\ ColumnErrors(importer_mapping[ColumnName], ColumnKey(ColumnName), row, values)

\* The step of the column loop on which the get of the column raises
\* IndexError.
ExtractionFailure ==
    /\ pc = "columns" /\ ci' = ci + 1
    /\ ColumnOutcome(ColumnName) \notin {"skip_should_update", "skip_not_null"}
    /\ ColumnRaises(importer_mapping[ColumnName], ColumnKey(ColumnName), row, values)

\* C17: whatever the column variant and warn_on_error, a data-shaped error
\* raised by the extraction of a column does not abort the run: the pending
\* entries stay as they were, the column loop goes on to the next column,
\* and the row is counted in read; an exception of another class aborts.
C17_DataShapedErrors ==
    [][/\ ExtractionError
          => /\ pc' = (IF ci = Len(get_columns(importer_mapping))
                       THEN "validate" ELSE "columns")
             /\ updates' = updates
       /\ pc = "validate" /\ pc' = "rows" => cnt'.read = cnt.read + 1
       /\ ExtractionFailure => pc' = "failed"]_vars

\* The step on which the validate_updates of the source rejects the record
\* of the row.
RejectsRow == pc = "validate" /\ pc' = "rows" /\ ~hooks'.validate_updates

\* C18: when the validate_updates of the source rejects the record of a
\* row, the whole pending entry of the record is removed, rejected grows by
\* one, a record the row created joins neither the working set nor the
\* lookup, the loop goes on with the next row, and the pending entries of
\* the other records are as they were.
C18_SourceRejects ==
    [][RejectsRow
          => /\ InUpdates(updates, item) /\ ~InUpdates(updates', item)
             /\ cnt'.rejected = cnt.rejected + 1
             /\ creating => /\ rawData' = rawData
                            /\ data' = data
                            /\ \A i \in 1..Len(rawData') : rawData'[i] # item
                            /\ \A k \in DOMAIN data' : data'[k] # item
             /\ pc' = "rows" /\ line_idx' = line_idx
             /\ updates' = SelectSeq(updates, LAMBDA e : e.item # item)
             /\ \A y \in 1..Len(live) :
                   y # item /\ InUpdates(updates, y)
                      => InUpdates(updates', y)
                         /\ Entry(updates', y) = Entry(updates, y)]_vars

\* C18 witness: the source has just rejected a record the row created,
\* while another record has a pending entry.
C18_Witness ==
    /\ pc = "rows" /\ ~hooks.validate_updates /\ creating
    /\ cnt.rejected = 1
    /\ updates # <<>> /\ ~InUpdates(updates, item)
    /\ \A i \in 1..Len(rawData) : rawData[i] # item
    /\ id \notin DOMAIN data

\* The step on which _read applies the pending entry of the next record.
AppliesRecord == pc = "apply" /\ queue # <<>> /\ Len(phases') = Len(phases) + 1

\* A required non-null field of the record has no value, staged or held.
NullRequired(x) ==
    \E c \in Fields :
       /\ ~Schema[c].nullable /\ ~Schema[c].primary_key /\ Schema[c].default = None
       /\ get_updated_value_for(updates, live, x, c) = None

\* C19: in the apply phase a pending record with a required non-null field
\* whose effective value is null is rejected: rejected grows by one, no
\* staged value is written to the record, and neither the record nor a
\* History Companion is registered; so every record the run created or
\* updated holds a value in each required non-null field.
C19_NullRequiredRejected ==
    /\ [][AppliesRecord /\ NullRequired(Head(queue))
            => /\ totals' = [totals EXCEPT !.rejected = @ + 1]
               /\ live' = live
               /\ session' = session
               /\ history_models' = history_models
               /\ pc' = "apply"]_vars
    /\ [](\A i \in 1..Len(applied) :
             applied[i].res \in {"created", "updated"}
                => \A c \in NonNullableColumns : live[applied[i].item][c] # None)

\* C19 witness: the apply phase has just rejected a created record on
\* which a key and col2 were staged and col1, required, was not.
C19_Witness ==
    /\ pc = "apply" /\ applied # <<>>
    /\ applied[Len(applied)].res = "rejected"
    /\ totals.rejected = 1
    /\ LET x == applied[Len(applied)].item
       IN  /\ Entry(updates, x).creating
           /\ DOMAIN Entry(updates, x).vals = {"id", "col2"}
           /\ live[x] = createModel
           /\ \A i \in 1..Len(session) : session[i].item # x


\* C20: binding the mapping of a source yields, as key column, the column
\* registered under get_key_column_name(), "id" by default: the key of
\* every row is what that column extracts; when no column has that name
\* the binding raises and no row of the source is read.
C20_KeyColumn ==
    /\ [][BindsSource
            => IF get_key_column_name \in DOMAIN Sources[si].mapping
               THEN pc' = "rows"
                       => /\ get_key_column_name = "id"
                          /\ keycolumn' = importer_mapping'["id"]
               ELSE pc' = "failed" /\ line_idx' = 0 /\ nrows' = nrows]_vars
    /\ [][ReadsKeyedRow
            => id' = get_key_column_comparator(
                        ColumnGet(importer_mapping["id"], ColumnKey("id"),
                                  row', EmptyMap))]_vars
    /\ [](pc = "rows" => "id" \in DOMAIN Sources[si].mapping)

\* C20 witness: a source whose mapping registers col1 and col2 and nothing
\* under "id" was bound, the run failed and the source read no row.
C20_Witness ==
    /\ pc = "failed" /\ FailedIn("source")
    /\ DOMAIN Sources[si].mapping = {"col1", "col2"}
    /\ line_idx = 0 /\ Len(results) = si - 1

(***************************************************************************)
(* Mappings and columns on their own.                                      *)
(***************************************************************************)
\* The step is a call of _complete_from_model.
Binds == ret' # None /\ Val(ret').op = "_complete_from_model" /\ ret' # ret

\* The parser the rules of binding give a field of the destination model.
RuleParser(name) ==
    LET type == Schema[name].type
        fn == IF type = "Boolean" THEN "str2boolnullable"
              ELSE IF type = "Integer" THEN "str2intnullable"
              ELSE IF type = "Numeric" THEN "str2floatnullable"
              ELSE IF type = "String" THEN "str2strnullable"
              ELSE IF type = "Date" THEN "parseShittyDateAsDate"
              ELSE IF type = "DateTime" THEN "parseShittyDateTime"
              ELSE "parseShittyTime"
    IN  Some([fn |-> fn,
              maxlength |-> IF type = "String" THEN Schema[name].length
                            ELSE None])

HasRule(name) ==
    Schema[name].type \in
        {"Boolean", "Integer", "Numeric", "String", "Date", "DateTime", "Time"}

\* C21: binding keeps every explicitly supplied parser; a binding that
\* returns leaves every Column that had no parser with the parser the
\* field's declared type selects (a string parser cut to the field's
\* length); a Column without parser on a field of a type with no rule makes
\* binding raise; a second binding changes nothing.
C21_BindingInfersParsers ==
    [][Binds =>
        LET before == mapping_obj.columns
            after == mapping_obj'.columns
        IN  /\ DOMAIN after = DOMAIN before
            /\ \A n \in DOMAIN before :
                  /\ before[n].parser # None => after[n] = before[n]
                  /\ before[n].parser = None /\ ~HasRule(n) => Val(ret').raised
                  /\ before[n].parser = None /\ ~Val(ret').raised =>
                        after[n] = [before[n] EXCEPT !.parser = RuleParser(n)]
            /\ Val(ret').again => mapping_obj' = mapping_obj]_vars

\* C21 witness: a Mapping bound twice without error, whose id had an explicit
\* parser and whose col1 got the string parser of length 1.
C21_Witness ==
    /\ ret # None
    /\ Val(ret).op = "_complete_from_model"
    /\ Val(ret).again
    /\ ~Val(ret).raised
    /\ DOMAIN mapping_obj.columns = {"id", "col1"}
    /\ mapping_obj.columns["id"].parser = ExplicitParser
    /\ mapping_obj.columns["col1"].parser =
           Some([fn |-> "str2strnullable", maxlength |-> Some(Col1Length)])

\* The step registers a column, with auto() or with col().
Registers == Len(mapping_obj'.names) = Len(mapping_obj.names) + 1

\* The column the last registration produced.
LastRegistered(m) == m.columns[m.names[Len(m.names)]]

\* The index a col() argument names: "A" is 0, "AB" is 27.
NamedIndex(column) ==
    IF ~column.str THEN column.int
    ELSE IF column.name = <<"A">> THEN 0
    ELSE 27

\* C25: an auto() with no registration before it yields column 0; any other
\* auto() yields one more than the column of the registration before it;
\* col(c) yields the index c names and the next auto() number is c + 1.
C25_Registrations ==
    [][Registers =>
        LET this == LastRegistered(mapping_obj').column_number
        IN  /\ Val(ret').op = "auto" =>
                  this = IF mapping_obj.names = <<>> THEN 0
                         ELSE LastRegistered(mapping_obj).column_number + 1
            /\ Val(ret').op = "col" =>
                  /\ this = NamedIndex(Val(Val(ret').column))
                  /\ mapping_obj'.auto_counter = this + 1]_vars

\* C25 witness: col("aB1") registered column 27 and the auto() after it
\* column 28.
C25_Witness ==
    /\ Len(mapping_obj.names) = 2
    /\ ret # None
    /\ Val(ret).op = "auto"
    /\ mapping_obj.columns[mapping_obj.names[1]].column_number = 27
    /\ mapping_obj.columns[mapping_obj.names[2]].column_number = 28

\* The step is, or repeats, a call of get that returned.
GetReturns == ret' # None /\ Val(ret').op = "get" /\ ~Val(ret').raised

\* The step is, or repeats, a call of get_raw_values.
CallsGetRawValues == ret' # None /\ Val(ret').op = "get_raw_values"

\* The value a column has in a row, nothing being cached: the parsed cell or
\* attribute, and for a computed column the computer's result on its
\* sub-columns' values.
RowValueOf(column, r) ==
    IF column.kind = "Column"
    THEN str2intnullable(IF column.column_number + 1 <= Len(r)
                         THEN r[column.column_number + 1] ELSE <<>>)
    ELSE IF column.kind = "Field" THEN GetAttr(r, column.field)
    ELSE IF column.kind = "ComputedColumn"
    THEN IF column.computer = Some("my_computer")
         THEN my_computer(<<str2intnullable(r[1]), str2intnullable(r[2])>>)
         ELSE <<str2intnullable(r[2]), str2intnullable(r[1])>>
    ELSE <<GetAttr(r, "col1"), GetAttr(r, "col2")>>

\* C22: a get that returns leaves the returned value in _Caching.values
\* under the column; when the column was cached before the call, the call
\* returns the cached value and leaves the cache alone, whatever the row;
\* when the cache was empty, the call returns the value computed from the
\* row it is given; get_raw_values leaves the cache alone and returns what
\* the row holds, whatever is cached.
C22_ValueCache ==
    /\ [][GetReturns =>
            LET column == Val(ret').column
                val == Val(ret').value
            IN  /\ column \in DOMAIN values'
                /\ values'[column] = val
                /\ column \in DOMAIN values =>
                      val = values[column] /\ values' = values
                /\ values = EmptyMap => val = RowValueOf(column, row)]_vars
    /\ [][CallsGetRawValues =>
            /\ values' = values
            /\ Val(ret') = [op |-> "get_raw_values",
                            column |-> Val(ret').column,
                            raised |-> RawValues(Val(ret').column, row).raised,
                            value |-> RawValues(Val(ret').column, row).value]]_vars

\* C22 witness: a Field's get returned a value cached from an earlier row
\* that differs from what the row at hand holds.
C22_Witness ==
    /\ ret # None
    /\ Val(ret).op = "get"
    /\ ~Val(ret).raised
    /\ Val(ret).column = TestField
    /\ HasAttr(row, "col1")
    /\ Val(ret).value # GetAttr(row, "col1")
    /\ values[TestField] = Val(ret).value

\* The step is, or repeats, a call of get.
CallsGet == ret' # None /\ Val(ret').op = "get"

\* The call the step makes is on a positional Column that is not cached and
\* whose index is past the end of the row.
PastTheEnd ==
    /\ Val(ret').column.kind = "Column"
    /\ Val(ret').column \notin DOMAIN values
    /\ Val(ret').column.column_number >= Len(row)

\* C23: on a Column (not cached) whose index is past the end of the row,
\* with fail_on_out_of_range get_raw_values and get raise and get leaves no
\* cache entry for the column; without it get_raw_values returns [""] and
\* get returns and caches the parser's value for "".
C23_OutOfRange ==
    /\ [][CallsGet /\ PastTheEnd =>
            LET column == Val(ret').column
            IN  IF column.fail_on_out_of_range
                THEN /\ Val(ret').raised
                     /\ column \notin DOMAIN values'
                ELSE /\ ~Val(ret').raised
                     /\ Val(ret').value = str2intnullable(<<>>)
                     /\ column \in DOMAIN values'
                     /\ values'[column] = str2intnullable(<<>>)]_vars
    /\ [][CallsGetRawValues /\ PastTheEnd =>
            IF Val(ret').column.fail_on_out_of_range
            THEN Val(ret').raised
            ELSE ~Val(ret').raised /\ Val(ret').value = << <<>> >>]_vars

\* C23 witness: on a row of one cell, get of the lenient Column 1 was cached
\* and get of the strict Column 1 has just raised.
C23_Witness ==
    /\ Len(row) = 1
    /\ row \in UnitRows
    /\ ret # None
    /\ Val(ret).op = "get"
    /\ Val(ret).raised
    /\ Val(ret).column = TestCol2
    /\ TestCol2 \notin DOMAIN values
    /\ DOMAIN values = {TestLenientCol}
    /\ values[TestLenientCol] = None

\* The step is, or repeats, a call on a ComputedColumn.
OnComputedColumn == ret' # None /\ Val(ret').column.kind = "ComputedColumn"

\* C24: get_raw_values of a ComputedColumn returns its sub-columns' raw
\* values in declared order; its get, when it returns, returns the computer's
\* result on the sub-columns' values in declared order and leaves a cache
\* entry for itself and for each sub-column, the values it was computed
\* from.
C24_ComputedColumn ==
    [][OnComputedColumn /\ ~Val(ret').raised =>
        LET column == Val(ret').column
            c1 == column.columns[1]
            c2 == column.columns[2]
        IN  /\ Val(ret').op = "get_raw_values" =>
                 Val(ret').value = <<row[c1.column_number + 1],
                                     row[c2.column_number + 1]>>
            /\ Val(ret').op = "get" =>
                 /\ {column, c1, c2} \subseteq DOMAIN values'
                 /\ values'[column] = Val(ret').value
                 /\ column \notin DOMAIN values =>
                       /\ Val(ret').value =
                             IF column.computer = Some("my_computer")
                             THEN my_computer(<<values'[c1], values'[c2]>>)
                             ELSE <<values'[c1], values'[c2]>>
                       /\ \A c \in {c1, c2} :
                             values'[c] = IF c \in DOMAIN values THEN values[c]
                                          ELSE str2intnullable(row[c.column_number + 1])]_vars

\* C24 witness: get of the ComputedColumn returned 3 on the row ["1", "2"],
\* nothing being cached before.
C24_Witness ==
    /\ row = << <<"1">>, <<"2">> >>
    /\ ret # None
    /\ Val(ret).op = "get"
    /\ Val(ret).column = TestComputedCol
    /\ Val(ret).value = Some(3)
    /\ values = (TestCol :> Some(1)) @@ (TestCol2 :> Some(2))
                    @@ (TestComputedCol :> Some(3))

(***************************************************************************)
(* The matching phase of a run.                                            *)
(***************************************************************************)
\* The rows a counter record accounts for.
RowsCounted(c) ==
    c.read + c.ignored + c.ignored_missing_id + c.ignored_not_created
        + c.ignored_not_updated

CounterNames ==
    {"read", "ignored", "ignored_missing_id", "ignored_not_created",
     "ignored_not_updated", "rejected"}

\* _parseSource is in its loop over the rows of a source.
InSource == pc \in {"rows", "columns", "validate"}

\* C26: between two rows of a source the five counters read, ignored,
\* ignored_missing_id, ignored_not_created and ignored_not_updated add up to
\* the number of non-header rows read so far, and while a row is matched to
\* one less; within a source no counter decreases, a row changes at most one
\* of the five, and rejected grows only together with read, so rejected is
\* at most read, also in the counters a source returns.
C26_CountersPartitionRows ==
    /\ [](/\ pc = "rows" => RowsCounted(cnt) = DataRowsRead
          /\ pc \in {"columns", "validate"} => RowsCounted(cnt) = DataRowsRead - 1
          /\ cnt.rejected <= cnt.read
          /\ \A k \in 1..Len(results) : results[k].rejected <= results[k].read)
    /\ [][InSource =>
            /\ \A f \in CounterNames : cnt'[f] >= cnt[f]
            /\ RowsCounted(cnt') <= RowsCounted(cnt) + 1
            /\ cnt'.rejected > cnt.rejected => cnt'.read > cnt.read
            /\ Len(results') > Len(results) =>
                  /\ RowsCounted(results'[Len(results')]) = DataRowsRead
                  /\ \A f \in CounterNames :
                        results'[Len(results')][f] = cnt[f]]_vars

\* C26 witness: a source has read three rows past the header: two counted
\* read, one of them rejected, and one without key.
C26_Witness ==
    /\ pc = "rows"
    /\ DataRowsRead = 3
    /\ cnt.read = 2
    /\ cnt.rejected = 1
    /\ cnt.ignored_missing_id = 1

\* The loop over the rows has just finished with a row matched to a record
\* that was loaded from the database.
RowDoneOnExisting ==
    /\ pc = "rows"
    /\ last_outcome # ""
    /\ ~creating
    /\ item \in 1..Len(initial)

\* The columns of the source at hand that always update and read the row
\* without error.
AlwaysUpdating ==
    {n \in DOMAIN importer_mapping :
        /\ importer_mapping[n].kind \in {"Column", "Field"}
        /\ importer_mapping[n].should_update
        /\ ~importer_mapping[n].should_update_only_if_null
        /\ ~RawValuesRaise(importer_mapping[n], row)}

\* The value column n has in the row at hand.
ValueInRow(n) == GetUncached(importer_mapping[n], row)

\* The last row that targeted the record decides: the effective value of
\* each of its fields is the row's, staged exactly when it differs from the
\* value the record was loaded with.
LastRowWins ==
    \A n \in AlwaysUpdating :
        /\ get_updated_value_for(updates, live, item, n) = ValueInRow(n)
        /\ is_updated(updates, item, n) <=> ValueInRow(n) # initial[item][n]

OtherEntries(u, x) == SelectSeq(u, LAMBDA e : e.item # x)

NothingApplied == \A i \in 1..Len(phases) : phases[i][1] # "apply"

\* The run is in its matching phase: binding a source, reading its rows or
\* between two sources.
Matching == InSource \/ pc = "sources"

\* C28: until the first record is applied, every record loaded from the
\* database has the field values it was loaded with and every record created
\* in the run has None in every field; no step of the matching phase changes
\* a field of a record (it can only add a created record), while staged
\* values are in the pending updates.
C28_MatchingWritesNothing ==
    /\ [](NothingApplied =>
            /\ Len(live) >= Len(initial)
            /\ \A x \in 1..Len(live) :
                  live[x] = IF x <= Len(initial) THEN initial[x]
                            ELSE [f \in Fields |-> None])
    /\ [][Matching =>
            /\ \A x \in 1..Len(live) : live'[x] = live[x]
            /\ Len(live') \in {Len(live), Len(live) + 1}]_vars

\* C28 witness: the apply phase is about to start with a loaded record and
\* a created record, both with staged values that differ from their fields.
C28_Witness ==
    /\ pc = "apply"
    /\ NothingApplied
    /\ Len(live) > Len(initial)
    /\ is_updated(updates, 1, "col1")
    /\ get_updated_value_for(updates, live, 1, "col1") # live[1]["col1"]
    /\ is_updated(updates, Len(live), "id")
    /\ live[Len(live)]["id"] = None

\* C29: when should_import is evaluated for a row past the header, and
\* before the key column or any other column is read from the row, the
\* cache holds no value: what was cached for an earlier row or an earlier
\* source is gone.
C29_CacheResetBeforeRow ==
    [][ReadsRow /\ PastHeader =>
          /\ values = EmptyMap
          /\ pc' = "columns" =>
                DOMAIN values' = {ColumnKey(get_key_column_name)}]_vars

\* The step binds a source and builds its lookup.
BuildsLookup == pc = "sources" /\ pc' = "rows"

\* The key a record goes by: the value staged for its key field when there
\* is one, else the field's value.
EffectiveKey(x) ==
    IF Pending(updates, x, "id") # <<>> THEN Pending(updates, x, "id")[1]
    ELSE live[x]["id"]

\* C30: the lookup a source starts with holds exactly the effective keys of
\* the records of the working set, each leading to a record with that
\* effective key; a record whose staged key differs from its field is not
\* found under the field's value; a row of the source that matches a record
\* matches the one the lookup holds under the row's key.
C30_LookupUsesStagedKey ==
    /\ [][BuildsLookup =>
            LET working == {rawData[i] : i \in 1..Len(rawData)}
            IN  /\ DOMAIN data' = {EffectiveKey(x) : x \in working}
                /\ \A k \in DOMAIN data' :
                      data'[k] \in working /\ EffectiveKey(data'[k]) = k
                /\ \A x \in working :
                      /\ EffectiveKey(x) # live[x]["id"]
                      /\ live[x]["id"] \in DOMAIN data'
                      => data'[live[x]["id"]] # x]_vars
    /\ [][ReadsRow /\ pc' = "columns" /\ ~creating' =>
            id' \in DOMAIN data /\ data[id'] = item']_vars

\* C30 witness: a row of the second source has matched, under the key 2 an
\* earlier source staged, a record created in the run whose id field is
\* still None.
C30_Witness ==
    /\ si = 2
    /\ pc = "columns"
    /\ ~creating
    /\ item > Len(initial)
    /\ live[item]["id"] = None
    /\ id = Some(2)
    /\ Pending(updates, item, "id") = <<Some(2)>>
    /\ created_for[Some(2)] = item

(***************************************************************************)
(* The shape of self.updates.                                              *)
(***************************************************************************)
\* C31: in every state of a run, the history-flagged names of each entry of
\* self.updates are names of its staged map, and an entry that is not a
\* creation entry has a staged map that is not empty: the cancellation of
\* its last staged field removes the entry.
C31_PendingEntriesWellFormed ==
    \A i \in 1..Len(updates) :
        /\ updates[i].hist \subseteq DOMAIN updates[i].vals
        /\ ~updates[i].creating => DOMAIN updates[i].vals # {}

\* C31 witness: the column loop has cancelled the last staged field of a
\* record on the update path, whose entry is gone, while another record on
\* the update path keeps an entry with a field flagged for history.
C31_Witness ==
    /\ pc \in {"columns", "validate"}
    /\ last_outcome = "cancel"
    /\ ~creating
    /\ item <= Len(initial)
    /\ ~InUpdates(updates, item)
    /\ \E i \in 1..Len(updates) : updates[i].hist # {} /\ ~updates[i].creating

\* _read hands the next record of the list to _apply_updates_for, which
\* returns.
AppliesUpdates == pc = "apply" /\ applied' # applied

\* C32: in the matching phase no value staged for a record is equal, for the
\* comparator of the columns, to the value the record holds in that field (a
\* record created in the run holds None in every field, so None is never
\* staged for it); when _apply_updates_for writes the staged fields of a
\* record, every one of them takes the staged value and changes.
C32_StagedDiffersFromLive ==
    /\ [](Matching =>
            \A i \in 1..Len(updates) : \A f \in DOMAIN updates[i].vals :
                /\ ~Comparator(updates[i].vals[f], live[updates[i].item][f])
                /\ CreatedInRun(updates[i].item) => updates[i].vals[f] # None)
    /\ [][AppliesUpdates /\ live' # live =>
            LET x == Head(queue)
            IN  \A f \in DOMAIN Entry(updates, x).vals :
                    /\ live'[x][f] = Entry(updates, x).vals[f]
                    /\ live'[x][f] # live[x][f]]_vars

\* C32 witness: an existing record and a record created in the run have had
\* their staged fields written by _apply_updates_for.
C32_Witness ==
    /\ pc = "apply"
    /\ \E i, j \in 1..Len(applied) :
          /\ applied[i].res = "updated"
          /\ applied[j].res = "created"
          /\ live[applied[i].item] # PreRun(applied[i].item)
          /\ live[applied[j].item]["id"] # None

(***************************************************************************)
(* History and the records created in the run.                             *)
(***************************************************************************)
\* C33: no entry of self.updates for a record created in the run has a
\* field flagged for history, whichever row of whichever source staged it,
\* and createHistoryModel is not called for a record created in the run.
C33_NoHistoryForCreated ==
    /\ \A i \in 1..Len(updates) :
          CreatedInRun(updates[i].item) => updates[i].hist = {}
    /\ \A x \in history_models : ~CreatedInRun(x)

\* The History Companions the apply phase added to the session.
Companions == {session[i] : i \in {j \in 1..Len(session) : session[j].kind = "history"}}

\* C34: a History Companion added to the session holds an old_ and a new_
\* field for exactly the staged fields of its record that are flagged for
\* history; old_f is the value the record held in f before the run and new_f
\* is the value the apply phase wrote to f.  A task constructed without
\* keep_history adds no companion, whatever its columns flagged.
C34_CompanionOldNew ==
    /\ \A h \in Companions :
          LET e == Entry(updates, h.item)
          IN  /\ DOMAIN h.old = e.hist \cap DOMAIN e.vals
              /\ DOMAIN h.new = e.hist \cap DOMAIN e.vals
              /\ \A f \in DOMAIN h.old :
                    /\ h.old[f] = PreRun(h.item)[f]
                    /\ h.new[f] = e.vals[f]
                    /\ h.new[f] = live[h.item][f]
    /\ ~Task(task).keep_history => Companions = {}

\* C34 witness: the session holds the companion of a record whose flagged
\* field held a value before the run and was given another one, and the
\* apply phase has updated another record, whose staged fields are not
\* flagged, without a companion.
C34_Witness ==
    /\ \E h \in Companions :
          \E f \in DOMAIN h.old : h.old[f] # None /\ h.old[f] # h.new[f]
    /\ \E i \in 1..Len(applied) :
          /\ applied[i].res = "updated"
          /\ Entry(updates, applied[i].item).hist = {}
          /\ \A h \in Companions : h.item # applied[i].item

(***************************************************************************)
(* Errors raised while a row is read.                                      *)
(***************************************************************************)
\* The column loop is at a positional column whose number is past the end of
\* the row, which it does not skip and has not cached.
ColumnOutOfRange ==
    /\ pc = "columns"
    /\ ci' = ci + 1
    /\ importer_mapping[ColumnName].kind = "Column"
    /\ importer_mapping[ColumnName].column_number + 1 > Len(row)
    /\ ColumnKey(ColumnName) \notin DOMAIN values
    /\ ColumnOutcome(ColumnName) \notin {"skip_should_update", "skip_not_null"}

\* C35: when the column loop reaches a positional column whose number is
\* past the end of the row, the import goes on with the next column or the
\* end of the row; with fail_on_out_of_range the column stages nothing, and
\* without it the column is read as the parser's value for "".
C35_OutOfRangeContinues ==
    [][ColumnOutOfRange =>
          /\ pc' \in {"columns", "validate"}
          /\ IF importer_mapping[ColumnName].fail_on_out_of_range
             THEN updates' = updates
             ELSE /\ ParsedValue = ApplyParser(importer_mapping[ColumnName].parser, <<>>)
                  /\ last_outcome' \in {"equal", "cancel", "cancel_error", "set"}]_vars

\* C36: when the extraction of the key of a row that should_import accepted
\* raises AttributeError (a Field key column on a row object without the
\* attribute), the run does not fail: the row loop goes on with the next
\* row and nothing is staged.
C36_KeyErrorContinues ==
    [][/\ ReadsRow /\ PastHeader /\ hooks'.should_import
       /\ ColumnErrors(keycolumn, ColumnKey(get_key_column_name), row', EmptyMap)
       => pc' = "rows" /\ updates' = updates]_vars

(***************************************************************************)
(* _Caching.values and row-processing steps that run at the same time.     *)
(***************************************************************************)
\* The entries of _Caching.values invocation t stored for the row it is at.
EntriesOf(t) ==
    IF invocations.of[t].pos = 0 THEN {}
    ELSE {InvocationKey(t, name) : name \in invocations.of[t].stored}

\* C37: with two row-processing steps interleaved, every get of an
\* invocation returns the value of the column in the row of that invocation
\* (never a value cached from the row of the other one, never an error),
\* and the cache reset of an invocation leaves the entries the other one
\* stored for the row it is at.
C37_CacheNotShared ==
    /\ [](\A t \in 1..2 :
            \A i \in 1..Len(invocations.of[t].got) :
                LET g == invocations.of[t].got[i]
                IN  /\ ~g.raised
                    /\ g.value = GetUncached(ConcurrentMapping[g.name],
                                             invocations.of[t].row))
    /\ [][\A t \in 1..2 :
            invocations'.of[t].rows # invocations.of[t].rows
            => EntriesOf(3 - t) \subseteq DOMAIN values']_vars

(***************************************************************************)
(* The records created in the run, and the counters of the apply phase.    *)
(***************************************************************************)
\* The number of times record x was registered for insertion.
Insertions(x) ==
    Cardinality({i \in 1..Len(session) :
                    session[i].kind = "model" /\ session[i].item = x})

\* What _apply_updates_for returned for record x, when it was called for it.
AppliedAs(x) == {applied[i].res : i \in {j \in 1..Len(applied) : applied[j].item = x}}

\* C38: when the run is done, a record createModel produced in the run was
\* either registered for insertion once and counted in created, or a
\* rejected counter of a source or of the run counted a rejection; it was
\* not counted in updated, and it is not in the working set with staged or
\* written values without being registered for insertion, unless the apply
\* phase rejected it.
C38_CreatedRecordsFate ==
    pc = "done" =>
        \A x \in (Len(initial) + 1)..Len(live) :
            /\ \/ Insertions(x) = 1 /\ AppliedAs(x) = {"created"}
               \/ /\ Insertions(x) = 0
                  /\ \/ "rejected" \in AppliedAs(x)
                     \/ \E i \in 1..Len(results) : results[i].rejected > 0
            /\ "updated" \notin AppliedAs(x)
            /\ ~ /\ \E i \in 1..Len(rawData) : rawData[i] = x
                 /\ InUpdates(updates, x) \/ live[x] # createModel
                 /\ Insertions(x) = 0
                 /\ "rejected" \notin AppliedAs(x)

\* The loop of _read over the pending entries is over.
AppliedAll ==
    \/ pc = "apply" /\ queue = <<>>
    \/ pc \in {"commit", "post_commit", "done"}

\* C39: each call of _apply_updates_for counts its record in exactly one of
\* created, updated and rejected; once the loop is over the entries of
\* self.updates have been handed to it once each, in order, so that the
\* three counters add up to the number of entries; history_created is at
\* most updated, and as many records are registered for insertion as
\* created counts.
C39_ApplyCounters ==
    /\ \A i \in 1..Len(applied) : applied[i].res \in {"created", "updated", "rejected"}
    /\ totals.created + totals.updated + totals.rejected = Len(applied)
    /\ \A res \in {"created", "updated", "rejected"} :
          totals[res] = Cardinality({i \in 1..Len(applied) : applied[i].res = res})
    /\ totals.history_created <= totals.updated
    /\ Cardinality({i \in 1..Len(session) : session[i].kind = "model"})
          = totals.created
    /\ AppliedAll =>
          /\ [i \in 1..Len(applied) |-> applied[i].item]
                = [i \in 1..Len(updates) |-> updates[i].item]
          /\ totals.created + totals.updated + totals.rejected = Len(updates)

\* C39 witness: the run is done after an apply phase that rejected one
\* record and updated another one with a History Companion.
C39_Witness ==
    /\ pc = "done"
    /\ Len(updates) = 2
    /\ totals.rejected = 1
    /\ totals.updated = 1
    /\ totals.history_created = 1

(***************************************************************************)
(* Fields with a dotted path.                                              *)
(***************************************************************************)
\* The step is a call of get on a Field that is not cached, for an object
\* with a parent.
GetsField ==
    /\ CallsGet
    /\ row \in NestedObjects
    /\ Val(ret').column.kind = "Field"
    /\ Val(ret').column \notin DOMAIN values

\* C40: get of a Field follows the parts of its path one getattr at a time;
\* it returns None as soon as a value on the way is None, without the
\* getattr of a later part (which would raise), returns the value at the end
\* of the path when none is None, and raises when an object on the way has
\* no attribute of the part's name.  The Field registered as Field() under
\* the name col1 has the path col1 once the Mapping is bound.
C40_FieldPath ==
    /\ [][GetsField =>
            LET parts == Split(Val(ret').column.field)
                n == Len(parts)
                v1 == GetAttr(row, parts[1])
                v2 == GetAttr(Val(v1), parts[2])
                v3 == GetAttr(Val(v2), parts[3])
                returns(v) == ~Val(ret').raised /\ Val(ret').value = v
            IN  IF ~HasAttr(row, parts[1]) THEN Val(ret').raised
                ELSE IF n = 1 \/ v1 = None THEN returns(v1)
                ELSE IF ~HasAttr(Val(v1), parts[2]) THEN Val(ret').raised
                ELSE IF n = 2 \/ v2 = None THEN returns(v2)
                ELSE IF ~HasAttr(Val(v2), parts[3]) THEN Val(ret').raised
                ELSE returns(v3)]_vars
    /\ [][GetsField /\ Val(ret').column = TestMappedField =>
            /\ Val(ret').column.field = "col1"
            /\ ~Val(ret').raised
            /\ Val(ret').value = GetAttr(row, "col1")]_vars

\* C40 witness: on an object whose parent has the col1 "P" and no parent of
\* its own, get of Field("parent.parent.col1") has returned None, after get
\* of Field("parent.col1") returned "P" and get of the Field registered
\* without a path returned the object's own col1.
C40_Witness ==
    /\ row \in NestedObjects
    /\ GetAttr(row, "parent") # None
    /\ HasAttr(Val(GetAttr(row, "parent")), "parent")
    /\ GetAttr(Val(GetAttr(row, "parent")), "parent") = None
    /\ ret = Some([op |-> "get", column |-> TestDeepField, raised |-> FALSE,
                   value |-> None])
    /\ DOMAIN values = DottedColumns
    /\ values[TestDottedField] = Some(<<"P">>)
    /\ values[TestMappedField] = Some(<<"Z">>)
    /\ values[TestDeepField] = None

====
